---- MODULE Spec2Model ----
(***************************************************************************)
(* Model of cambi: the release reconciler (src/release.rs) run step by     *)
(* step against a remote release store, the commit classifier             *)
(* (src/conventional.rs), the version bumps, the changelog text functions  *)
(* and the changelog command (src/changelog.rs) over a git repository      *)
(* (src/git.rs), the commit filter (src/filters.rs) and the version,       *)
(* semver and update commands (src/version.rs).  Strings the code inspects *)
(* are sequences of one-character strings; Option<T> is a sequence of      *)
(* length 0 (None) or 1 (Some).                                            *)
(***************************************************************************)
EXTENDS Integers, Sequences, FiniteSets, TLC

(* ---- bounds ---- *)
MaxTags == 2
MaxRemote == 2
MaxRuns == 2

(* ---- program constants ---- *)
PerPage == 100

None == <<>>
Some(x) == <<x>>

Min(a, b) == IF a <= b THEN a ELSE b

Range(s) == {s[i] : i \in 1..Len(s)}

(* str::starts_with *)
starts_with(s, p) == Len(s) >= Len(p) /\ SubSeq(s, 1, Len(p)) = p

(* str::trim_start_matches('v'): drops every leading 'v' *)
RECURSIVE trim_start_matches_v(_)
trim_start_matches_v(s) ==
  IF s # <<>> /\ Head(s) = "v" THEN trim_start_matches_v(Tail(s)) ELSE s

normalize_release_version(version) == trim_start_matches_v(version)

release_tag(tag) == <<"v">> \o normalize_release_version(tag)

release_title(tag) == normalize_release_version(tag)

(* ---- inputs: the repository as the git layer reports it ---- *)
FeatA == <<"f", "e", "a", "t", ":", " ", "a">>
ChoreB == <<"c", "h", "o", "r", "e", ":", " ", "b">>
MergeC == <<"M", "e", "r", "g", "e", " ", "c">>
NoNotable ==
  <<"-", " ", "N", "o", " ", "n", "o", "t", "a", "b", "l", "e", " ",
    "c", "h", "a", "n", "g", "e", "s", ".">>

TagNames == {<<"1">>, <<"v", "1">>, <<"v", "2">>}
Windows == {<<MergeC, ChoreB>>, <<FeatA>>}
GitTags == [name : TagNames, window : Windows]

(* read_tags: matching tags, newest first; git tag names are unique *)
TagLists ==
  {ts \in UNION {[1..n -> GitTags] : n \in 0..MaxTags} :
     \A i, j \in 1..Len(ts) : i # j => ts[i].name # ts[j].name}

(* CommitFilter::is_ignored, with no configured pattern matching *)
is_ignored(subject) == starts_with(subject, <<"M", "e", "r", "g", "e", " ">>)

RECURSIVE collect_releasable_commits(_)
collect_releasable_commits(commits) ==
  IF commits = <<>> THEN <<>>
  ELSE LET c == Head(commits)
           rest == collect_releasable_commits(Tail(commits))
       IN IF ~is_ignored(c) /\ ~starts_with(c, <<"c", "h", "o", "r", "e">>)
          THEN <<c>> \o rest ELSE rest

(* variant: no placeholder, the body of no commits is empty *)
render_release_body_no_placeholder(commits) ==
  [i \in 1..Len(commits) |-> <<"-", " ">> \o commits[i]]

(* the body is the "\n"-join of its lines; kept as the sequence of lines *)
render_release_body(commits) ==
  IF commits = <<>> THEN <<NoNotable>>
  ELSE [i \in 1..Len(commits) |-> <<"-", " ">> \o commits[i]]

Candidate(tag) ==
  [tag_name |-> release_tag(tag.name),
   title |-> release_title(tag.name),
   body |-> render_release_body(collect_releasable_commits(tag.window))]

(* tags.iter().rev(): oldest first, one candidate pushed per tag *)
build_release_candidates(ts) ==
  [i \in 1..Len(ts) |-> Candidate(ts[Len(ts) + 1 - i])]

(* ---- inputs: the remote release store ---- *)
V1 == <<"v", "1">>
V9 == <<"v", "9">>
RemoteTagNames == {V1, V9}
RemoteContents ==
  {[name |-> Some(<<"1">>), body |-> Some(<<<<"-", " ">> \o FeatA>>)],
   [name |-> None, body |-> Some(<<<<"-", " ">> \o FeatA>>)],
   [name |-> Some(<<"1">>), body |-> None]}

RemoteLists ==
  UNION {{[i \in 1..n |-> [id |-> i, tag_name |-> ts[i], name |-> cs[i].name,
                           body |-> cs[i].body]] :
            ts \in [1..n -> RemoteTagNames], cs \in [1..n -> RemoteContents]} :
         n \in 0..MaxRemote}

ArgsSet ==
  [rebuild : BOOLEAN, dry_run : BOOLEAN, notes_only : BOOLEAN,
   target : {None, Some(<<"1", ".", "2", ".", "3">>)}, prerelease : BOOLEAN]

VARIABLES
  args,               \* ReleaseArgs
  tags,               \* what read_tags returns for the configured pattern
  remote,             \* releases held by the remote store, newest first
  nextId,             \* next id the remote assigns
  pc,                 \* position in execute_release_command
  tagsRead,           \* read_tags has been called in this run
  target_candidates,
  existing,
  i,                  \* index of the running loop
  calls,              \* remote calls issued by this run, in order
  output,             \* lines printed to stdout by this run
  err,                \* Err returned by this run
  run,                \* number of the invocation
  fname,              \* the function under evaluation ("" when none is)
  input,              \* its arguments
  returned,           \* its return value, None until it has returned
  changelog_args,     \* ChangelogArgs
  changelog_template, \* config.changelog_template
  repo,               \* the git repository: commits, tags, HEAD
  changelog_md,       \* content of CHANGELOG.md ("" when the file is missing)
  cpc,                \* position in the changelog, version, semver or update command
  local,              \* local variables of that command
  stdout,             \* what this run of that command printed
  cerr,               \* Err returned by this run of that command
  written,            \* number of fs::write calls of this run
  crun,               \* number of the changelog invocation
  command,            \* the version, semver or update command and its arguments
  config,             \* EffectiveConfig: the ignore patterns
  version_file        \* content of the file VERSION, None when it is missing

releaseVars ==
  <<args, tags, remote, nextId, pc, tagsRead, target_candidates, existing, i,
    calls, output, err, run>>

pureVars == <<fname, input, returned>>

changelogVars ==
  <<changelog_args, changelog_template, repo, changelog_md, cpc, local,
    stdout, cerr, written, crun>>

(* the command of main.rs other than release and changelog, the
   configuration and the version file of the working directory *)
versionVars == <<command, config, version_file>>

vars == <<releaseVars, pureVars, changelogVars, versionVars>>

(* the changelog command is not running *)
ChangelogIdle ==
  /\ changelog_args = [target |-> <<>>, rebuild |-> FALSE, dry_run |-> FALSE]
  /\ changelog_template = <<>>
  /\ repo = [commits |-> <<>>, tags |-> <<>>]
  /\ changelog_md = <<>>
  /\ cpc = "idle"
  /\ local = <<>>
  /\ stdout = <<>>
  /\ cerr = ""
  /\ written = 0
  /\ crun = 1

(* no command runs while a function is evaluated on its own *)
ReleaseIdle ==
  /\ args = [rebuild |-> FALSE, dry_run |-> FALSE, notes_only |-> FALSE,
             target |-> <<>>, prerelease |-> FALSE]
  /\ tags = <<>>
  /\ remote = <<>>
  /\ nextId = 1
  /\ pc = "idle"
  /\ tagsRead = FALSE
  /\ target_candidates = <<>>
  /\ existing = <<>>
  /\ i = 1
  /\ calls = <<>>
  /\ output = <<>>
  /\ err = [msg |-> "", tag |-> <<>>, id |-> <<>>]
  /\ run = 1

(* no version, semver or update command runs; no ignore pattern is
   configured and the working directory has no version file *)
VersionIdle ==
  /\ command = [name |-> "", target |-> <<>>]
  /\ config = [ignore_patterns |-> <<>>]
  /\ version_file = <<>>

(* no function is under evaluation while a command runs *)
PureIdle ==
  /\ fname = ""
  /\ input = <<>>
  /\ returned = <<>>

NoErr == [msg |-> "", tag |-> None, id |-> None]

Call(op, ok, id, payload, result) ==
  [op |-> op, ok |-> ok, id |-> id, payload |-> payload, result |-> result]

(* variant: the error is recorded but the run goes on *)
Fail_and_continue(message, tag, id) ==
  /\ pc' = pc
  /\ err' = [msg |-> message, tag |-> tag, id |-> id]

(* return Err(anyhow!(...)) and the `?` on every fallible call *)
Fail(message, tag, id) ==
  /\ pc' = "error"
  /\ err' = [msg |-> message, tag |-> tag, id |-> id]

Init ==
  /\ args \in ArgsSet
  /\ tags \in TagLists
  /\ remote \in RemoteLists
  /\ nextId = Len(remote) + 1
  /\ pc = "start"
  /\ tagsRead = FALSE
  /\ target_candidates = <<>>
  /\ existing = <<>>
  /\ i = 1
  /\ calls = <<>>
  /\ output = <<>>
  /\ err = NoErr
  /\ run = 1
  /\ PureIdle
  /\ ChangelogIdle
  /\ VersionIdle

(* variant: with no matching tag the command returns Ok and does nothing *)
ReadTags_silent ==
  /\ pc = "start"
  /\ tagsRead' = TRUE
  /\ pc' = IF tags = <<>> THEN "done" ELSE "tags"
  /\ UNCHANGED <<pureVars, changelogVars, versionVars>>
  /\ UNCHANGED <<args, tags, remote, nextId, target_candidates, existing, i,
                 calls, output, err, run>>

(* release.rs 219-225 *)
ReadTags ==
  /\ pc = "start"
  /\ tagsRead' = TRUE
  /\ IF tags = <<>>
     THEN Fail("No matching git tags found for pattern", None, None)
     ELSE pc' = "tags" /\ err' = err
  /\ UNCHANGED <<pureVars, changelogVars, versionVars>>
  /\ UNCHANGED <<args, tags, remote, nextId, target_candidates, existing, i,
                 calls, output, run>>

(* variant: every candidate is a target, with or without --rebuild *)
BuildCandidates_all ==
  /\ pc = "tags"
  /\ target_candidates' = build_release_candidates(tags)
  /\ pc' = "built"
  /\ UNCHANGED <<pureVars, changelogVars, versionVars>>
  /\ UNCHANGED <<args, tags, remote, nextId, tagsRead, existing, i, calls,
                 output, err, run>>

(* release.rs 227-238 *)
BuildCandidates ==
  /\ pc = "tags"
  /\ LET candidates == build_release_candidates(tags)
     IN target_candidates' =
          IF args.rebuild THEN candidates
          ELSE <<candidates[Len(candidates)]>>
  /\ pc' = "built"
  /\ UNCHANGED <<pureVars, changelogVars, versionVars>>
  /\ UNCHANGED <<args, tags, remote, nextId, tagsRead, existing, i, calls,
                 output, err, run>>

(* release.rs 240-243 *)
NotesOnly ==
  /\ pc = "built"
  /\ args.notes_only
  /\ output' = Append(output, [kind |-> "notes", tag |-> None,
                               text |-> target_candidates[1].body])
  /\ pc' = "done"
  /\ UNCHANGED <<pureVars, changelogVars, versionVars>>
  /\ UNCHANGED <<args, tags, remote, nextId, tagsRead, target_candidates,
                 existing, i, calls, err, run>>

(* release.rs 245 and 202-210: owner/repo from the configuration or from *)
(* the manifest files, whichever the environment provides                *)
ResolveOwnerRepo ==
  /\ pc = "built"
  /\ ~args.notes_only
  /\ \/ pc' = "owner" /\ err' = err
     \/ Fail("Cannot determine GitHub owner/repo", None, None)
  /\ UNCHANGED <<pureVars, changelogVars, versionVars>>
  /\ UNCHANGED <<args, tags, remote, nextId, tagsRead, target_candidates,
                 existing, i, calls, output, run>>

(* variant: only the newest candidate is reported *)
DryRunLines_newest_only ==
  <<[kind |-> IF args.rebuild THEN "would rebuild" ELSE "would publish latest",
     tag |-> None, text |-> <<>>],
    [kind |-> "would upsert",
     tag |-> Some(target_candidates[Len(target_candidates)].tag_name),
     text |-> <<target_candidates[Len(target_candidates)].title>>]>>
  \o (IF args.rebuild
      THEN <<[kind |-> "rebuild would delete", tag |-> None, text |-> <<>>]>>
      ELSE <<>>)

(* release.rs 248-263: the lines the dry run prints *)
DryRunLines ==
  <<[kind |-> IF args.rebuild THEN "would rebuild" ELSE "would publish latest",
     tag |-> None, text |-> <<>>]>>
  \o [k \in 1..Len(target_candidates) |->
        [kind |-> "would upsert", tag |-> Some(target_candidates[k].tag_name),
         text |-> <<target_candidates[k].title>>]]
  \o (IF args.rebuild
      THEN <<[kind |-> "rebuild would delete", tag |-> None, text |-> <<>>]>>
      ELSE <<>>)

(* variant: the dry run prints its lines and falls through to the calls *)
DryRun_falls_through ==
  /\ pc = "owner"
  /\ args.dry_run
  /\ output' = output \o DryRunLines
  /\ pc' = "token"
  /\ UNCHANGED <<pureVars, changelogVars, versionVars>>
  /\ UNCHANGED <<args, tags, remote, nextId, tagsRead, target_candidates,
                 existing, i, calls, err, run>>

(* release.rs 247-266 *)
DryRun ==
  /\ pc = "owner"
  /\ args.dry_run
  /\ output' = output \o DryRunLines
  /\ pc' = "done"
  /\ UNCHANGED <<pureVars, changelogVars, versionVars>>
  /\ UNCHANGED <<args, tags, remote, nextId, tagsRead, target_candidates,
                 existing, i, calls, err, run>>

(* release.rs 268 and 212-216 *)
ResolveToken ==
  /\ pc = "owner"
  /\ ~args.dry_run
  /\ \/ pc' = "token" /\ err' = err
     \/ Fail("Missing GitHub token", None, None)
  /\ UNCHANGED <<pureVars, changelogVars, versionVars>>
  /\ UNCHANGED <<args, tags, remote, nextId, tagsRead, target_candidates,
                 existing, i, calls, output, run>>

(* release.rs 134-148: one GET of the first page of per_page=100 releases *)
list_releases(store) == SubSeq(store, 1, Min(Len(store), PerPage))

(* release.rs 269 *)
ListReleases ==
  /\ pc = "token"
  /\ \/ /\ existing' = list_releases(remote)
        /\ calls' = Append(calls, Call("list", TRUE, None, None,
                                       list_releases(remote)))
        /\ pc' = IF args.rebuild THEN "delete" ELSE "upsert"
        /\ err' = err
     \/ /\ calls' = Append(calls, Call("list", FALSE, None, None, <<>>))
        /\ Fail("GitHub API error while listing releases", None, None)
        /\ existing' = existing
  /\ i' = 1
  /\ UNCHANGED <<pureVars, changelogVars, versionVars>>
  /\ UNCHANGED <<args, tags, remote, nextId, tagsRead, target_candidates,
                 output, run>>

(* variant: only the newest candidate's tag is kept *)
target_tags_newest_only ==
  {target_candidates[Len(target_candidates)].tag_name}

(* release.rs 272-275 *)
target_tags == {target_candidates[k].tag_name : k \in 1..Len(target_candidates)}

RemoveId(store, id) == SelectSeq(store, LAMBDA r : r.id # id)

(* release.rs 277-281, one iteration; delete_release is 150-162 *)
DeleteStep ==
  /\ pc = "delete"
  /\ i <= Len(existing)
  /\ LET release == existing[i]
     IN IF release.tag_name \notin target_tags
        THEN \/ /\ calls' = Append(calls, Call("delete", TRUE,
                                               Some(release.id), None, <<>>))
                /\ remote' = RemoveId(remote, release.id)
                /\ i' = i + 1
                /\ UNCHANGED <<pc, err>>
             \/ /\ calls' = Append(calls, Call("delete", FALSE,
                                               Some(release.id), None, <<>>))
                /\ Fail("GitHub API error while deleting release", None,
                        Some(release.id))
                /\ UNCHANGED <<remote, i>>
        ELSE /\ i' = i + 1
             /\ UNCHANGED <<calls, remote, pc, err>>
  /\ UNCHANGED <<pureVars, changelogVars, versionVars>>
  /\ UNCHANGED <<args, tags, nextId, tagsRead, target_candidates, existing,
                 output, run>>

(* release.rs 283 *)
Relist ==
  /\ pc = "delete"
  /\ i > Len(existing)
  /\ \/ /\ existing' = list_releases(remote)
        /\ calls' = Append(calls, Call("list", TRUE, None, None,
                                       list_releases(remote)))
        /\ pc' = "upsert"
        /\ err' = err
     \/ /\ calls' = Append(calls, Call("list", FALSE, None, None, <<>>))
        /\ Fail("GitHub API error while listing releases", None, None)
        /\ existing' = existing
  /\ i' = 1
  /\ UNCHANGED <<pureVars, changelogVars, versionVars>>
  /\ UNCHANGED <<args, tags, remote, nextId, tagsRead, target_candidates,
                 output, run>>

(* variant: the lookup also requires the remote name to be the title *)
FindIndex_tag_and_name(list, tag_name) ==
  LET hits == {k \in 1..Len(list) :
                 list[k].tag_name = tag_name /\ list[k].name = Some(Tail(tag_name))}
  IN IF hits = {} THEN 0
     ELSE CHOOSE k \in hits : \A m \in hits : k <= m

(* existing.iter().find(|release| release.tag_name == candidate.tag_name) *)
FindIndex(list, tag_name) ==
  LET hits == {k \in 1..Len(list) : list[k].tag_name = tag_name}
  IN IF hits = {} THEN 0
     ELSE CHOOSE k \in hits : \A m \in hits : k <= m

(* variant: the remote name is compared with the tag name, not the title *)
same_release_name_vs_tag(found, payload) ==
  /\ found.name = Some(payload.tag_name)
  /\ found.body = Some(payload.body)

(* release.rs 296-299: same_name && same_body *)
same_release(found, payload) ==
  /\ found.name = Some(payload.name)
  /\ found.body = Some(payload.body)

Payload(candidate) ==
  [tag_name |-> candidate.tag_name, name |-> candidate.title,
   body |-> candidate.body, draft |-> FALSE, prerelease |-> FALSE]

ApplyUpdate(store, id, payload) ==
  [k \in 1..Len(store) |->
     IF store[k].id = id
     THEN [id |-> id, tag_name |-> payload.tag_name,
           name |-> Some(payload.name), body |-> Some(payload.body)]
     ELSE store[k]]

ApplyCreate(store, id, payload) ==
  <<[id |-> id, tag_name |-> payload.tag_name, name |-> Some(payload.name),
     body |-> Some(payload.body)]>> \o store

(* release.rs 286-309, one iteration; create_release 164-181,          *)
(* update_release 183-200.  Any call may fail; the store refuses to     *)
(* create a published release for a tag that already has a release, so  *)
(* such a create can only fail.                                         *)
UpsertStep ==
  /\ pc = "upsert"
  /\ i <= Len(target_candidates)
  /\ LET candidate == target_candidates[i]
         payload == Payload(candidate)
         k == FindIndex(existing, candidate.tag_name)
         next == IF i = Len(target_candidates) THEN "done" ELSE "upsert"
     IN IF k # 0
        THEN LET found == existing[k]
             IN IF same_release(found, payload)
                THEN /\ pc' = next
                     /\ UNCHANGED <<calls, remote, nextId, err>>
                ELSE \/ /\ calls' = Append(calls, Call("update", TRUE,
                                             Some(found.id), Some(payload), <<>>))
                        /\ remote' = ApplyUpdate(remote, found.id, payload)
                        /\ pc' = next
                        /\ UNCHANGED <<nextId, err>>
                     \/ /\ calls' = Append(calls, Call("update", FALSE,
                                             Some(found.id), Some(payload), <<>>))
                        /\ Fail("GitHub API error while updating release",
                                Some(payload.tag_name), None)
                        /\ UNCHANGED <<remote, nextId>>
        ELSE \/ /\ \A r \in Range(remote) : r.tag_name # payload.tag_name
                /\ calls' = Append(calls, Call("create", TRUE, None,
                                               Some(payload), <<>>))
                /\ remote' = ApplyCreate(remote, nextId, payload)
                /\ nextId' = nextId + 1
                /\ pc' = next
                /\ err' = err
             \/ /\ calls' = Append(calls, Call("create", FALSE, None,
                                               Some(payload), <<>>))
                /\ Fail("GitHub API error while creating release",
                        Some(payload.tag_name), None)
                /\ UNCHANGED <<remote, nextId>>
  /\ i' = i + 1
  /\ UNCHANGED <<pureVars, changelogVars, versionVars>>
  /\ UNCHANGED <<args, tags, tagsRead, target_candidates, existing, output,
                 run>>

(* main.rs 56-62: the caller invokes the command again on the same *)
(* repository after a run that returned Ok                          *)
Rerun ==
  /\ pc = "done"
  /\ run < MaxRuns
  /\ run' = run + 1
  /\ pc' = "start"
  /\ tagsRead' = FALSE
  /\ target_candidates' = <<>>
  /\ existing' = <<>>
  /\ i' = 1
  /\ calls' = <<>>
  /\ output' = <<>>
  /\ UNCHANGED <<pureVars, changelogVars, versionVars>>
  /\ UNCHANGED <<args, tags, remote, nextId, err>>

Next ==
  \/ ReadTags
  \/ BuildCandidates
  \/ NotesOnly
  \/ ResolveOwnerRepo
  \/ DryRun
  \/ ResolveToken
  \/ ListReleases
  \/ DeleteStep
  \/ Relist
  \/ UpsertStep

Spec == Init /\ [][Next]_vars

(* the command followed by re-invocations by the caller *)
NextRerun == Next \/ Rerun

SpecRerun == Init /\ [][NextRerun]_vars

(* ======================= properties ======================= *)

WriteOps == {"create", "update", "delete"}

NoWrites == \A k \in 1..Len(calls) : calls[k].op \notin WriteOps

ListIdx == {k \in 1..Len(calls) : calls[k].op = "list" /\ calls[k].ok}

Fetched == ListIdx # {}

FirstList == calls[CHOOSE k \in ListIdx : \A m \in ListIdx : k <= m].result

LastList == calls[CHOOSE k \in ListIdx : \A m \in ListIdx : k >= m].result

Reconciling == ~args.dry_run /\ ~args.notes_only

DesiredTags == {c.tag_name : c \in Range(target_candidates)}

NothingOutsideDesired(list) ==
  args.rebuild => \A r \in Range(list) : r.tag_name \in DesiredTags

SomeReleaseMatches(list, c) ==
  \E r \in Range(list) :
    r.tag_name = c.tag_name /\ r.name = Some(c.title) /\ r.body = Some(c.body)

FirstReleaseMatches(list, c) ==
  \E k \in 1..Len(list) :
    /\ list[k].tag_name = c.tag_name
    /\ \A m \in 1..(k - 1) : list[m].tag_name # c.tag_name
    /\ list[k].name = Some(c.title)
    /\ list[k].body = Some(c.body)

(* C1, as stated: in a non-dry-run run, when for every desired candidate the
   fetched list holds SOME release with the candidate's tag name, title and
   body (and, in rebuild mode, no fetched release has a tag outside the
   desired set), no create, update or delete is issued. *)
C1_AnyMatchingReleaseMeansNoWrites ==
  ( /\ ~args.dry_run
    /\ Fetched
    /\ \A c \in Range(target_candidates) : SomeReleaseMatches(FirstList, c)
    /\ NothingOutsideDesired(FirstList) )
  => NoWrites

(* C1, amended: the same with the release the lookup returns, i.e. when for
   every desired candidate the FIRST release of the fetched list carrying the
   candidate's tag name has the candidate's title as name and the candidate's
   body as body, no create, update or delete is issued. *)
C1_FirstMatchingReleaseMeansNoWrites ==
  ( /\ ~args.dry_run
    /\ Fetched
    /\ \A c \in Range(target_candidates) : FirstReleaseMatches(FirstList, c)
    /\ NothingOutsideDesired(FirstList) )
  => NoWrites

C1_Witness ==
  /\ pc = "done"
  /\ Reconciling
  /\ args.rebuild
  /\ Len(target_candidates) = 2
  /\ Fetched
  /\ Len(FirstList) = 2
  /\ \A c \in Range(target_candidates) : FirstReleaseMatches(FirstList, c)
  /\ NothingOutsideDesired(FirstList)
  /\ NoWrites

(* C2: for each desired candidate the lookup is by tag name only: no release
   with the tag gives exactly one create carrying the candidate's tag, title
   and body; a found release with equal name and body gives no call; a found
   release whose name or body differs (or is missing) gives exactly one
   update addressed to the found release's id. *)
C2_UpsertStepDecision ==
  (pc = "upsert" /\ i' = i + 1) =>
    LET c == target_candidates[i]
        matches == {k \in 1..Len(existing) : existing[k].tag_name = c.tag_name}
        new == SubSeq(calls', Len(calls) + 1, Len(calls'))
        Carries(call) ==
          /\ call.payload # None
          /\ call.payload[1].tag_name = c.tag_name
          /\ call.payload[1].name = c.title
          /\ call.payload[1].body = c.body
    IN IF matches = {}
       THEN Len(new) = 1 /\ new[1].op = "create" /\ Carries(new[1])
       ELSE LET found == existing[CHOOSE k \in matches :
                                    \A m \in matches : k <= m]
            IN IF found.name = Some(c.title) /\ found.body = Some(c.body)
               THEN new = <<>>
               ELSE /\ Len(new) = 1
                    /\ new[1].op = "update"
                    /\ new[1].id = Some(found.id)
                    /\ Carries(new[1])

C2_LookupByTagOnly == [][C2_UpsertStepDecision]_vars

C2_Witness ==
  /\ pc = "done"
  /\ \E a, b \in Range(calls) :
       /\ a.op = "update" /\ a.ok
       /\ b.op = "create" /\ b.ok
  /\ \E r \in Range(existing) : r.name = None

DeleteIds == SelectSeq(calls, LAMBDA call : call.op = "delete")

ToDelete(list) == SelectSeq(list, LAMBDA r : r.tag_name \notin DesiredTags)

(* C3: in rebuild mode the calls go list, delete*, list, (create|update)*;
   at the second list the deletes issued are exactly the releases of the
   first list whose tag is not a desired tag; every create or update comes
   after the second list and is decided against its result, which is what
   `existing` holds from then on. *)
C3_RebuildOrder ==
  (args.rebuild /\ calls # <<>>) =>
    LET L == {k \in 1..Len(calls) : calls[k].op = "list"}
        second == {k \in L : k > 1}
    IN /\ calls[1].op = "list"
       /\ Cardinality(L) <= 2
       /\ \A k \in 1..Len(calls) :
            calls[k].op = "delete" => k > 1 /\ \A l \in second : k < l
       /\ \A k \in 1..Len(calls) :
            calls[k].op \in {"create", "update"} =>
              \E l \in second :
                /\ l < k
                /\ calls[l].ok
                /\ existing = calls[l].result
                /\ LET hit == {r \in Range(calls[l].result) :
                                 r.tag_name = calls[k].payload[1].tag_name}
                   IN IF calls[k].op = "create" THEN hit = {}
                      ELSE \E r \in hit : calls[k].id = Some(r.id)
       /\ \A l \in second :
            /\ Len(DeleteIds) = Len(ToDelete(calls[1].result))
            /\ \A k \in 1..Len(DeleteIds) :
                 /\ DeleteIds[k].ok
                 /\ DeleteIds[k].id = Some(ToDelete(calls[1].result)[k].id)
            /\ calls[l].ok => \A r \in Range(calls[l].result) :
                                r.tag_name \in DesiredTags

C3_Witness ==
  /\ pc = "done"
  /\ args.rebuild
  /\ Len(target_candidates) = 2
  /\ Len(DeleteIds) >= 1
  /\ \E r \in Range(FirstList) : r.tag_name \in DesiredTags
  /\ \E a \in Range(calls) : a.op \in {"create", "update"}
  /\ existing # FirstList

(* C4: after a rebuild run that returns Ok, with every call applied, the
   remote matches the desired state: same set of tag names, one remote
   release per desired tag, each with the candidate's title and body. *)
C4_RebuildMakesRemoteMatchDesired ==
  (pc = "done" /\ args.rebuild /\ Reconciling) =>
    /\ {r.tag_name : r \in Range(remote)} = DesiredTags
    /\ \A t \in DesiredTags :
         Cardinality({k \in 1..Len(remote) : remote[k].tag_name = t}) = 1
    /\ \A c \in Range(target_candidates) :
         \E r \in Range(remote) :
           /\ r.tag_name = c.tag_name
           /\ r.name = Some(c.title)
           /\ r.body = Some(c.body)

(* C5: a second run right after a run that returned Ok, on the same tags and
   commits, issues no create, update or delete. *)
C5_SecondRunIssuesNoWrite == run >= 2 => NoWrites

(* C6: a failed remote call is the last call of the run, and the run has
   ended with an error. *)
C6_FailureAbortsPlan ==
  \A k \in 1..Len(calls) :
    ~calls[k].ok => k = Len(calls) /\ pc = "error" /\ err # NoErr

C6_Witness ==
  /\ pc = "error"
  /\ calls # <<>>
  /\ calls[Len(calls)].op = "delete"
  /\ ~calls[Len(calls)].ok
  /\ \E k \in (i + 1)..Len(existing) : existing[k].tag_name \notin DesiredTags
  /\ \A c \in Range(target_candidates) : ~FirstReleaseMatches(existing, c)

OpWords(op) ==
  IF op = "delete" THEN "GitHub API error while deleting release"
  ELSE IF op = "create" THEN "GitHub API error while creating release"
  ELSE "GitHub API error while updating release"

TargetTag(call) ==
  IF call.op = "delete"
  THEN (CHOOSE r \in Range(existing) : Some(r.id) = call.id).tag_name
  ELSE call.payload[1].tag_name

(* C7: the error of a failed delete, create or update carries the operation
   and the tag name of the release the call targeted. *)
C7_ErrorCarriesOperationAndTag ==
  ( /\ pc = "error"
    /\ calls # <<>>
    /\ ~calls[Len(calls)].ok
    /\ calls[Len(calls)].op \in WriteOps )
  => /\ err.msg = OpWords(calls[Len(calls)].op)
     /\ err.tag = Some(TargetTag(calls[Len(calls)]))

(* C8: with dry_run set no create, update or delete is ever issued, in
   rebuild mode as in latest-only mode, whatever the remote holds. *)
C8_DryRunIssuesNoWrite == args.dry_run => NoWrites

C8_Witness ==
  /\ pc = "done"
  /\ args.dry_run
  /\ ~args.notes_only
  /\ args.rebuild
  /\ output # <<>>
  /\ \E r \in Range(remote) : r.tag_name \notin DesiredTags
  /\ \E c \in Range(target_candidates) : ~FirstReleaseMatches(remote, c)

(* C9, as stated: a dry run fetches the existing remote releases (and
   matches the candidates against them). *)
C9_DryRunFetchesExisting ==
  (args.dry_run /\ ~args.notes_only /\ pc = "done") =>
    \E k \in 1..Len(calls) : calls[k].op = "list"

(* C9, amended: a dry run issues no remote call at all, not even a list; it
   prints one headline, then one "would upsert" line with tag and title per
   desired candidate in candidate order, then in rebuild mode one notice
   that releases not matching git tags would be deleted. *)
C9_DryRunReportsUpsertsWithoutAnyCall ==
  (args.dry_run /\ ~args.notes_only) =>
    /\ calls = <<>>
    /\ pc = "done" =>
         LET n == Len(target_candidates)
         IN /\ Len(output) = n + 1 + (IF args.rebuild THEN 1 ELSE 0)
            /\ output[1].kind =
                 (IF args.rebuild THEN "would rebuild"
                  ELSE "would publish latest")
            /\ \A k \in 1..n :
                 /\ output[k + 1].kind = "would upsert"
                 /\ output[k + 1].tag = Some(target_candidates[k].tag_name)
                 /\ output[k + 1].text = <<target_candidates[k].title>>
            /\ args.rebuild => output[n + 2].kind = "rebuild would delete"

C9_Witness ==
  /\ pc = "done"
  /\ args.dry_run
  /\ ~args.notes_only
  /\ args.rebuild
  /\ Len(target_candidates) = 2
  /\ Len(output) = 4
  /\ remote # <<>>

(* C10: called with an explicit target and rebuild, the command fails with
   'Cannot combine --rebuild with an explicit release target' before tags
   are read and before any remote call. *)
C10_TargetWithRebuildRejectedBeforeIO ==
  (args.target # None /\ args.rebuild /\ pc # "start") =>
    /\ pc = "error"
    /\ err.msg = "Cannot combine --rebuild with an explicit release target"
    /\ ~tagsRead
    /\ calls = <<>>

(* C11: called with the prerelease flag and no explicit target, the command
   fails with '--prerelease requires an explicit positional release target'
   before any tag is read and before any remote call. *)
C11_PrereleaseWithoutTargetRejectedBeforeIO ==
  (args.prerelease /\ args.target = None /\ pc # "start") =>
    /\ pc = "error"
    /\ err.msg = "--prerelease requires an explicit positional release target"
    /\ ~tagsRead
    /\ calls = <<>>

(* C12: run with an explicit target and the prerelease flag, every create or
   update payload sent to the remote has prerelease = TRUE. *)
C12_PrereleaseFlagIsSent ==
  (args.target # None /\ args.prerelease /\ ~args.rebuild) =>
    \A k \in 1..Len(calls) :
      calls[k].op \in {"create", "update"} =>
        calls[k].payload[1].prerelease = TRUE

(* C13: run with an explicit target, the release that is upserted has tag
   'v<target>' and title '<target>' (an explicit version taken as given),
   not the tag and title of the newest git tag. *)
C13_TargetDecidesUpsertedRelease ==
  (args.target # None /\ ~args.rebuild) =>
    /\ \A k \in 1..Len(calls) :
         calls[k].op \in {"create", "update"} =>
           /\ calls[k].payload[1].tag_name = <<"v">> \o args.target[1]
           /\ calls[k].payload[1].name = args.target[1]
    /\ \A k \in 1..Len(output) :
         output[k].kind = "would upsert" =>
           /\ output[k].tag = Some(<<"v">> \o args.target[1])
           /\ output[k].text = <<args.target[1]>>

(* ======================= conventional.rs ======================= *)

(* str::ends_with *)
ends_with(s, p) ==
  Len(s) >= Len(p) /\ SubSeq(s, Len(s) - Len(p) + 1, Len(s)) = p

(* str::find: index of the first occurrence of p in s, 0 when there is none *)
find(s, p) ==
  LET hits == {k \in 1..(Len(s) - Len(p) + 1) : SubSeq(s, k, k + Len(p) - 1) = p}
  IN IF hits = {} THEN 0 ELSE CHOOSE k \in hits : \A h \in hits : k <= h

(* str::contains *)
contains(s, p) == find(s, p) # 0

(* str::split_once: the parts around the first occurrence of p *)
split_once(s, p) ==
  LET k == find(s, p)
  IN IF k = 0 THEN None
     ELSE Some(<<SubSeq(s, 1, k - 1), SubSeq(s, k + Len(p), Len(s))>>)

(* char::is_whitespace, on the characters the inputs use *)
is_whitespace(c) == c \in {" ", "\t", "\r", "\n"}

(* str::trim_start *)
RECURSIVE trim_start(_)
trim_start(s) ==
  IF s # <<>> /\ is_whitespace(Head(s)) THEN trim_start(Tail(s)) ELSE s

(* str::lines: split at "\n", one trailing "\r" of a line dropped, no empty
   last line *)
RECURSIVE lines(_)
lines(s) ==
  IF s = <<>> THEN <<>>
  ELSE LET k == find(s, <<"\n">>)
           raw == IF k = 0 THEN s ELSE SubSeq(s, 1, k - 1)
           line == IF k # 0 /\ ends_with(raw, <<"\r">>)
                   THEN SubSeq(raw, 1, Len(raw) - 1) ELSE raw
       IN <<line>> \o (IF k = 0 THEN <<>> ELSE lines(SubSeq(s, k + 1, Len(s))))

BreakingChangeSpace == <<"B", "R", "E", "A", "K", "I", "N", "G", " ", "C", "H", "A", "N", "G", "E", ":">>
BreakingChangeDash == <<"B", "R", "E", "A", "K", "I", "N", "G", "-", "C", "H", "A", "N", "G", "E", ":">>

(* enum BumpLevel, ordered Patch < Minor < Major by derive(Ord) *)
BumpLevel == {"patch", "minor", "major"}

(* variant: the type is whatever precedes ": ", scope included *)
infer_bump_scope_kept(subject, body) ==
  LET parts == split_once(subject, <<":", " ">>)
      header == IF parts = None THEN <<>> ELSE parts[1][1]
      header_breaking == ends_with(header, <<"!">>)
      footer_breaking ==
        \E k \in 1..Len(lines(body)) :
          LET normalized == trim_start(lines(body)[k])
          IN \/ starts_with(normalized, BreakingChangeSpace)
             \/ starts_with(normalized, BreakingChangeDash)
  IN IF header_breaking \/ footer_breaking THEN "major"
     ELSE IF header = <<"f", "e", "a", "t">> THEN "minor"
     ELSE "patch"

(* conventional.rs 18-47 *)
infer_bump(subject, body) ==
  LET parts == split_once(subject, <<":", " ">>)
      header == IF parts = None THEN <<>> ELSE parts[1][1]
      header_breaking == ends_with(header, <<"!">>)
      header_without_breaking ==
        IF header_breaking THEN SubSeq(header, 1, Len(header) - 1) ELSE header
      kind == split_once(header_without_breaking, <<"(">>)
      commit_type == IF kind = None THEN header_without_breaking ELSE kind[1][1]
      footer_breaking ==
        \E k \in 1..Len(lines(body)) :
          LET normalized == trim_start(lines(body)[k])
          IN \/ starts_with(normalized, BreakingChangeSpace)
             \/ starts_with(normalized, BreakingChangeDash)
  IN IF header_breaking \/ footer_breaking THEN "major"
     ELSE IF commit_type = <<"f", "e", "a", "t">> THEN "minor"
     ELSE "patch"

(* ---- inputs: subjects and bodies ---- *)
SubjectTypes == {<<>>, <<"f", "e", "a", "t">>, <<"f", "i", "x">>, <<"f", "e", "a", "t", "s">>}
SubjectScopes == {<<>>, <<"(", "a", ")">>, <<"(", "a", ":", " ", "b", ")">>, <<"!", "(", "a", ")">>, <<"(", "a">>}
SubjectBangs == {<<>>, <<"!">>}
SubjectSeparators == {<<>>, <<":", " ">>, <<":">>}
SubjectRests == {<<>>, <<"x">>, <<"x", "!", ":", " ", "y">>, <<"y", ":", " ", "z">>}
Subjects ==
  {t \o s \o b \o p \o r :
     t \in SubjectTypes, s \in SubjectScopes, b \in SubjectBangs,
     p \in SubjectSeparators, r \in SubjectRests}
Bodies ==
  {<<>>,
   <<"B", "R", "E", "A", "K", "I", "N", "G", " ", "C", "H", "A", "N", "G", "E", ":", " ", "x">>,
   <<" ", "\t", "B", "R", "E", "A", "K", "I", "N", "G", "-", "C", "H", "A", "N", "G", "E", ":", " ", "x">>,
   <<"n", "o", "t", "e", "\r", "\n", "\n", " ", " ", "B", "R", "E", "A", "K", "I", "N", "G", " ", "C", "H", "A", "N", "G", "E", ":", " ", "y", "\n">>,
   <<"B", "R", "E", "A", "K", "I", "N", "G", " ", "C", "H", "A", "N", "G", "E">>,
   <<"x", " ", "B", "R", "E", "A", "K", "I", "N", "G", " ", "C", "H", "A", "N", "G", "E", ":", " ", "y">>,
   <<"b", "r", "e", "a", "k", "i", "n", "g", " ", "c", "h", "a", "n", "g", "e", ":", " ", "x">>,
   <<"\r", "B", "R", "E", "A", "K", "I", "N", "G", "-", "C", "H", "A", "N", "G", "E", ":">>}

(* ---- infer_bump applied to one subject and body ---- *)
InitInferBump ==
  /\ fname = "infer_bump"
  /\ input \in [subject : Subjects, body : Bodies]
  /\ returned = None
  /\ ReleaseIdle
  /\ ChangelogIdle
  /\ VersionIdle

EvalInferBump ==
  /\ fname = "infer_bump"
  /\ returned = None
  /\ returned' = Some(infer_bump(input.subject, input.body))
  /\ UNCHANGED <<fname, input, releaseVars, changelogVars, versionVars>>

SpecInferBump == InitInferBump /\ [][EvalInferBump]_vars

(* the classification as the specification words it, by positions *)
FirstColonSpace(subject) ==
  {k \in 1..(Len(subject) - 1) :
     /\ subject[k] = ":" /\ subject[k + 1] = " "
     /\ \A h \in 1..(k - 1) : ~(subject[h] = ":" /\ subject[h + 1] = " ")}

BangBeforeColonSpace(subject) ==
  \E k \in FirstColonSpace(subject) : k > 1 /\ subject[k - 1] = "!"

LineStarts(body) ==
  {k \in 1..Len(body) : k = 1 \/ body[k - 1] = "\n"}

MarkerAt(body, k) ==
  \E m \in {BreakingChangeSpace, BreakingChangeDash} :
    /\ k + Len(m) - 1 <= Len(body)
    /\ SubSeq(body, k, k + Len(m) - 1) = m

BreakingFooter(body) ==
  \E s \in LineStarts(body) : \E k \in s..Len(body) :
    /\ \A h \in s..(k - 1) : body[h] \in {" ", "\t", "\r"}
    /\ MarkerAt(body, k)

TypeIsFeat(subject) ==
  \E k \in FirstColonSpace(subject) :
    LET header == SubSeq(subject, 1, k - 1)
        paren == {h \in 1..Len(header) : header[h] = "("}
    IN \/ paren = {} /\ header = <<"f", "e", "a", "t">>
       \/ paren # {} /\ \E h \in paren :
            /\ \A g \in paren : h <= g
            /\ SubSeq(header, 1, h - 1) = <<"f", "e", "a", "t">>

ReferenceBump(subject, body) ==
  IF BangBeforeColonSpace(subject) \/ BreakingFooter(body) THEN "major"
  ELSE IF TypeIsFeat(subject) THEN "minor"
  ELSE "patch"

(* C14: for every subject and body, infer_bump returns Major when the text
   before the first ": " ends with "!" or a body line, leading whitespace
   removed, starts with "BREAKING CHANGE:" or "BREAKING-CHANGE:"; otherwise
   Minor when the header without its "(scope" part is exactly "feat";
   otherwise Patch, subjects without ": " included *)
C14_InferBumpMatchesReference ==
  (fname = "infer_bump" /\ returned # None) =>
    returned[1] = ReferenceBump(input.subject, input.body)

(* a feat whose first ": " lies inside its scope, with "!: " further on and
   a body naming BREAKING CHANGE without the colon, has been classified
   Minor *)
C14_Witness ==
  /\ fname = "infer_bump" /\ returned = Some("minor")
  /\ input.subject = <<"f", "e", "a", "t", "(", "a", ":", " ", "b", ")">> \o <<":", " ">> \o <<"x", "!", ":", " ", "y">>
  /\ input.body = <<"B", "R", "E", "A", "K", "I", "N", "G", " ", "C", "H", "A", "N", "G", "E">>

(* ======================= changelog.rs: sorting ======================= *)

MaxSorted == 3

(* variant: only the words BREAKING CHANGE put a subject in bucket 3 *)
priority_without_bang(subject) ==
  IF contains(subject, <<"B", "R", "E", "A", "K", "I", "N", "G", " ", "C", "H", "A", "N", "G", "E">>) THEN 3
  ELSE IF starts_with(subject, <<"f", "e", "a", "t">>) THEN 2
  ELSE IF starts_with(subject, <<"f", "i", "x">>) THEN 1
  ELSE 0

(* changelog.rs 23-37 *)
priority(subject) ==
  IF contains(subject, <<"B", "R", "E", "A", "K", "I", "N", "G", " ", "C", "H", "A", "N", "G", "E">>) \/ contains(subject, <<"!", ":">>) THEN 3
  ELSE IF starts_with(subject, <<"f", "e", "a", "t">>) THEN 2
  ELSE IF starts_with(subject, <<"f", "i", "x">>) THEN 1
  ELSE 0

(* Ord::cmp on integers *)
cmp(a, b) == IF a < b THEN "Less" ELSE IF a > b THEN "Greater" ELSE "Equal"

(* the closure given to sort_by, changelog.rs 143-150 *)
by_priority_then_time(a, b) ==
  LET by_priority == cmp(priority(b.subject), priority(a.subject))
  IN IF by_priority = "Equal" THEN cmp(b.time, a.time) ELSE by_priority

(* variant: an element goes in front of the elements it compares equal to *)
RECURSIVE insert_before_equal(_, _)
insert_before_equal(sorted, x) ==
  IF sorted = <<>> THEN <<x>>
  ELSE IF by_priority_then_time(x, Head(sorted)) \in {"Less", "Equal"}
       THEN <<x>> \o sorted
       ELSE <<Head(sorted)>> \o insert_before_equal(Tail(sorted), x)

(* slice::sort_by is stable: an element goes behind the elements it
   compares equal to *)
RECURSIVE insert_sorted(_, _)
insert_sorted(sorted, x) ==
  IF sorted = <<>> THEN <<x>>
  ELSE IF by_priority_then_time(x, Head(sorted)) = "Less"
       THEN <<x>> \o sorted
       ELSE <<Head(sorted)>> \o insert_sorted(Tail(sorted), x)

(* variant of the sort that does not keep the order of ties *)
RECURSIVE apply_default_sorting_unstable(_)
apply_default_sorting_unstable(commits) ==
  IF commits = <<>> THEN <<>>
  ELSE insert_before_equal(
         apply_default_sorting_unstable(SubSeq(commits, 1, Len(commits) - 1)),
         commits[Len(commits)])

(* changelog.rs 142-151 *)
RECURSIVE apply_default_sorting(_)
apply_default_sorting(commits) ==
  IF commits = <<>> THEN <<>>
  ELSE insert_sorted(apply_default_sorting(SubSeq(commits, 1, Len(commits) - 1)),
                     commits[Len(commits)])

(* ---- inputs: commits to sort ---- *)
SortSubjects ==
  {<<"x", " ", "B", "R", "E", "A", "K", "I", "N", "G", " ", "C", "H", "A", "N", "G", "E">>, <<"f", "i", "x", "!", ":", " ", "a">>, <<"f", "e", "a", "t", ":", " ", "b">>, <<"f", "e", "a", "t", "s">>, <<"f", "i", "x", ":", " ", "c">>,
   <<"d", "o", "c", "s", ":", " ", "d">>, <<"a", " ", "f", "e", "a", "t">>}
SortTimes == {1, 2}
SortCommits == [subject : SortSubjects, body : {<<>>}, time : SortTimes]

InitSorting ==
  /\ fname = "apply_default_sorting"
  /\ input \in UNION {[1..n -> SortCommits] : n \in 0..MaxSorted}
  /\ returned = None
  /\ ReleaseIdle
  /\ ChangelogIdle
  /\ VersionIdle

EvalSorting ==
  /\ fname = "apply_default_sorting"
  /\ returned = None
  /\ returned' = Some(apply_default_sorting(input))
  /\ UNCHANGED <<fname, input, releaseVars, changelogVars, versionVars>>

SpecSorting == InitSorting /\ [][EvalSorting]_vars

(* p places the elements of `from` into `to`, each exactly once *)
IsPlacement(p, from, to) ==
  /\ Len(from) = Len(to)
  /\ \A j, k \in 1..Len(to) : j # k => p[j] # p[k]
  /\ \A k \in 1..Len(to) : to[k] = from[p[k]]

(* C15: apply_default_sorting returns a permutation of its input in which
   the priority bucket never rises, inside a bucket the timestamp never
   rises, and commits equal in both keep their input order *)
C15_SortingIsStableByPriorityThenTime ==
  (fname = "apply_default_sorting" /\ returned # None) =>
    LET out == returned[1]
        n == Len(out)
    IN \E p \in [1..n -> 1..Len(input)] :
         /\ IsPlacement(p, input, out)
         /\ \A j, k \in 1..n : j < k =>
              \/ priority(out[j].subject) > priority(out[k].subject)
              \/ /\ priority(out[j].subject) = priority(out[k].subject)
                 /\ out[j].time > out[k].time
              \/ /\ priority(out[j].subject) = priority(out[k].subject)
                 /\ out[j].time = out[k].time
                 /\ p[j] < p[k]

(* the sort has moved a later breaking commit to the front and left two
   commits of one bucket and one timestamp in their input order *)
C15_Witness ==
  /\ fname = "apply_default_sorting" /\ returned # None
  /\ Len(input) = 3
  /\ input[1].subject = <<"f", "e", "a", "t", ":", " ", "b">> /\ input[2].subject = <<"f", "e", "a", "t", "s">>
  /\ input[1].time = input[2].time
  /\ input[3].subject = <<"f", "i", "x", "!", ":", " ", "a">> /\ input[3].time < input[1].time
  /\ returned[1] = <<input[3], input[1], input[2]>>

(* ======================= version bumps ======================= *)

MaxComponent == 2

(* semver::Version: three numbers, pre-release and build metadata (empty
   when absent) *)
Version(major, minor, patch, pre, build) ==
  [major |-> major, minor |-> minor, patch |-> patch, pre |-> pre,
   build |-> build]

(* Version::new(0, 0, 0) *)
VersionZero == Version(0, 0, 0, <<>>, <<>>)

(* variant: a minor bump that leaves the patch number alone *)
bump_version_patch_kept(current, bump) ==
  LET next == IF current = None THEN VersionZero ELSE current[1]
  IN CASE bump = "major" ->
            [next EXCEPT !.major = @ + 1, !.minor = 0, !.patch = 0]
       [] bump = "minor" -> [next EXCEPT !.minor = @ + 1]
       [] bump = "patch" -> [next EXCEPT !.patch = @ + 1]

(* changelog.rs 49-68 *)
bump_version(current, bump) ==
  LET next == IF current = None THEN VersionZero ELSE current[1]
  IN CASE bump = "major" ->
            [next EXCEPT !.major = @ + 1, !.minor = 0, !.patch = 0]
       [] bump = "minor" -> [next EXCEPT !.minor = @ + 1, !.patch = 0]
       [] bump = "patch" -> [next EXCEPT !.patch = @ + 1]

(* version.rs 19-38 *)
bump_semver(current, bump) ==
  LET next == current
  IN CASE bump = "major" ->
            [next EXCEPT !.major = @ + 1, !.minor = 0, !.patch = 0]
       [] bump = "minor" -> [next EXCEPT !.minor = @ + 1, !.patch = 0]
       [] bump = "patch" -> [next EXCEPT !.patch = @ + 1]

(* ---- inputs: versions ---- *)
PreReleases == {<<>>, <<"r", "c", ".", "1">>}
Versions ==
  {Version(a, b, c, p, <<>>) :
     a \in 0..MaxComponent, b \in 0..MaxComponent, c \in 0..MaxComponent,
     p \in PreReleases}

InitBump ==
  /\ \/ /\ fname = "bump_version"
        /\ input \in [current : {None} \cup {Some(v) : v \in Versions},
                      bump : BumpLevel]
     \/ /\ fname = "bump_semver"
        /\ input \in [current : Versions, bump : BumpLevel]
  /\ returned = None
  /\ ReleaseIdle
  /\ ChangelogIdle
  /\ VersionIdle

EvalBumpVersion ==
  /\ fname = "bump_version"
  /\ returned = None
  /\ returned' = Some(bump_version(input.current, input.bump))
  /\ UNCHANGED <<fname, input, releaseVars, changelogVars, versionVars>>

EvalBumpSemver ==
  /\ fname = "bump_semver"
  /\ returned = None
  /\ returned' = Some(bump_semver(input.current, input.bump))
  /\ UNCHANGED <<fname, input, releaseVars, changelogVars, versionVars>>

NextBump == EvalBumpVersion \/ EvalBumpSemver

SpecBump == InitBump /\ [][NextBump]_vars

Triple(v) == <<v.major, v.minor, v.patch>>

(* the triple the specification gives for one bump step *)
BumpedTriple(t, bump) ==
  CASE bump = "major" -> <<t[1] + 1, 0, 0>>
    [] bump = "minor" -> <<t[1], t[2] + 1, 0>>
    [] bump = "patch" -> <<t[1], t[2], t[3] + 1>>

(* C16: bump_version, an absent current taken as 0.0.0, returns
   (major+1, 0, 0), (major, minor+1, 0) or (major, minor, patch+1) for
   Major, Minor or Patch, and bump_semver returns the same triple for the
   same current and level *)
C16_BumpTriples ==
  /\ (fname = "bump_version" /\ returned # None) =>
       LET t == IF input.current = None THEN <<0, 0, 0>>
                ELSE Triple(input.current[1])
       IN /\ Triple(returned[1]) = BumpedTriple(t, input.bump)
          /\ Triple(returned[1]) =
               Triple(bump_semver(IF input.current = None THEN VersionZero
                                  ELSE input.current[1], input.bump))
  /\ (fname = "bump_semver" /\ returned # None) =>
       /\ Triple(returned[1]) = BumpedTriple(Triple(input.current), input.bump)
       /\ Triple(returned[1]) =
            Triple(bump_version(Some(input.current), input.bump))

(* a minor bump of 1.2.2 has returned 1.3.0 *)
C16_Witness ==
  /\ fname = "bump_version" /\ returned # None
  /\ input.current # None /\ Triple(input.current[1]) = <<1, 2, 2>>
  /\ input.bump = "minor"
  /\ Triple(returned[1]) = <<1, 3, 0>>

(* ======================= changelog.rs: text ======================= *)

DigitChars == <<"0", "1", "2", "3", "4", "5", "6", "7", "8", "9">>
AsciiLower ==
  <<"a", "b", "c", "d", "e", "f", "g", "h", "i", "j", "k", "l", "m",
    "n", "o", "p", "q", "r", "s", "t", "u", "v", "w", "x", "y", "z">>
AsciiUpper ==
  <<"A", "B", "C", "D", "E", "F", "G", "H", "I", "J", "K", "L", "M",
    "N", "O", "P", "Q", "R", "S", "T", "U", "V", "W", "X", "Y", "Z">>

IsDigit(c) == c \in Range(DigitChars)
IsAsciiLetter(c) == c \in Range(AsciiLower) \cup Range(AsciiUpper)

(* Display of an unsigned integer *)
RECURSIVE to_dec(_)
to_dec(n) ==
  IF n < 10 THEN <<DigitChars[n + 1]>>
  ELSE to_dec(n \div 10) \o <<DigitChars[(n % 10) + 1]>>

(* the number a digit string denotes *)
RECURSIVE from_dec(_)
from_dec(s) ==
  IF s = <<>> THEN 0
  ELSE LET last == s[Len(s)]
           d == CHOOSE k \in 0..9 : DigitChars[k + 1] = last
       IN 10 * from_dec(SubSeq(s, 1, Len(s) - 1)) + d

(* str::split at a one-character separator *)
RECURSIVE split(_, _)
split(s, sep) ==
  LET k == find(s, <<sep>>)
  IN IF k = 0 THEN <<s>>
     ELSE <<SubSeq(s, 1, k - 1)>> \o split(SubSeq(s, k + 1, Len(s)), sep)

(* the join of lines with a separator *)
RECURSIVE join(_, _)
join(parts, sep) ==
  IF parts = <<>> THEN <<>>
  ELSE IF Len(parts) = 1 THEN parts[1]
  ELSE parts[1] \o sep \o join(Tail(parts), sep)

(* char::to_ascii_lowercase and str::to_ascii_lowercase *)
char_to_ascii_lowercase(c) ==
  IF c \in Range(AsciiUpper)
  THEN AsciiLower[CHOOSE k \in 1..26 : AsciiUpper[k] = c]
  ELSE c

to_ascii_lowercase(s) == [k \in 1..Len(s) |-> char_to_ascii_lowercase(s[k])]

(* str::trim_end and str::trim *)
RECURSIVE trim_end(_)
trim_end(s) ==
  IF s # <<>> /\ is_whitespace(s[Len(s)])
  THEN trim_end(SubSeq(s, 1, Len(s) - 1)) ELSE s

trim(s) == trim_end(trim_start(s))

(* str::replace: every occurrence, left to right *)
RECURSIVE replace(_, _, _)
replace(s, from, to) ==
  LET k == find(s, from)
  IN IF k = 0 THEN s
     ELSE SubSeq(s, 1, k - 1) \o to
            \o replace(SubSeq(s, k + Len(from), Len(s)), from, to)

(* semver: a numeric identifier has digits only and no leading zero *)
is_numeric_identifier(s) ==
  /\ s # <<>>
  /\ \A k \in 1..Len(s) : IsDigit(s[k])
  /\ Len(s) = 1 \/ s[1] # "0"

is_identifier(s) ==
  /\ s # <<>>
  /\ \A k \in 1..Len(s) : IsDigit(s[k]) \/ IsAsciiLetter(s[k]) \/ s[k] = "-"

is_prerelease(s) ==
  \A id \in Range(split(s, ".")) :
    /\ is_identifier(id)
    /\ (\A k \in 1..Len(id) : IsDigit(id[k])) => is_numeric_identifier(id)

is_build_metadata(s) == \A id \in Range(split(s, ".")) : is_identifier(id)

(* semver::Version::parse: MAJOR.MINOR.PATCH[-PRE][+BUILD], None on error *)
parse_version(text) ==
  LET plus == find(text, <<"+">>)
      head == IF plus = 0 THEN text ELSE SubSeq(text, 1, plus - 1)
      build == IF plus = 0 THEN <<>> ELSE SubSeq(text, plus + 1, Len(text))
      dash == find(head, <<"-">>)
      core == IF dash = 0 THEN head ELSE SubSeq(head, 1, dash - 1)
      pre == IF dash = 0 THEN <<>> ELSE SubSeq(head, dash + 1, Len(head))
      numbers == split(core, ".")
  IN IF /\ Len(numbers) = 3
        /\ \A k \in 1..3 : is_numeric_identifier(numbers[k])
        /\ dash # 0 => is_prerelease(pre)
        /\ plus # 0 => is_build_metadata(build)
     THEN Some(Version(from_dec(numbers[1]), from_dec(numbers[2]),
                       from_dec(numbers[3]), pre, build))
     ELSE None

(* Display of semver::Version *)
version_to_string(v) ==
  to_dec(v.major) \o <<".">> \o to_dec(v.minor) \o <<".">> \o to_dec(v.patch)
    \o (IF v.pre = <<>> THEN <<>> ELSE <<"-">> \o v.pre)
    \o (IF v.build = <<>> THEN <<>> ELSE <<"+">> \o v.build)

(* changelog.rs 39-47 *)
normalize_tag_version(tag_name) ==
  parse_version(IF starts_with(tag_name, <<"v">>)
                THEN trim_start_matches_v(tag_name) ELSE tag_name)

(* changelog.rs 70-90; None is the Err of an invalid target *)
resolve_changelog_target(current, target, detected_bump) ==
  IF target = None THEN Some(bump_version(current, detected_bump))
  ELSE LET raw_target == target[1]
           normalized_target == to_ascii_lowercase(raw_target)
       IN IF normalized_target = <<"m", "a", "j", "o", "r">>
          THEN Some(bump_version(current, "major"))
          ELSE IF normalized_target = <<"m", "i", "n", "o", "r">>
          THEN Some(bump_version(current, "minor"))
          ELSE IF normalized_target = <<"p", "a", "t", "c", "h">>
          THEN Some(bump_version(current, "patch"))
          ELSE parse_version(trim_start_matches_v(raw_target))

(* two-digit and four-digit fields of strftime *)
pad2(n) == IF n < 10 THEN <<"0">> \o to_dec(n) ELSE to_dec(n)
pad4(n) ==
  IF n < 10 THEN <<"0", "0", "0">> \o to_dec(n)
  ELSE IF n < 100 THEN <<"0", "0">> \o to_dec(n)
  ELSE IF n < 1000 THEN <<"0">> \o to_dec(n)
  ELSE to_dec(n)

(* changelog.rs 162-167: the UTC calendar date of a Unix timestamp, as
   chrono computes it from the day number, printed with "%Y-%m-%d" *)
format_date(timestamp) ==
  LET days == timestamp \div 86400
      z == days + 719468
      era == z \div 146097
      doe == z - era * 146097
      yoe == (doe - doe \div 1460 + doe \div 36524 - doe \div 146096) \div 365
      doy == doe - (365 * yoe + yoe \div 4 - yoe \div 100)
      mp == (5 * doy + 2) \div 153
      day == doy - (153 * mp + 2) \div 5 + 1
      month == IF mp < 10 THEN mp + 3 ELSE mp - 9
      year == yoe + era * 400 + (IF month <= 2 THEN 1 ELSE 0)
  IN pad4(year) \o <<"-">> \o pad2(month) \o <<"-">> \o pad2(day)

(* struct ChangelogSection *)
ChangelogSection(date, version, commits) ==
  [date |-> date, version |-> version, commits |-> commits]

(* changelog.rs 169-194 *)
render_section(section, template) ==
  IF template # None
  THEN LET commits ==
             join([k \in 1..Len(section.commits) |->
                     <<"-", " ">> \o section.commits[k]], <<"\n">>)
       IN trim(replace(replace(replace(template[1], <<"$", "D", "A", "T", "E">>, section.date),
                               <<"$", "V", "E", "R", "S", "I", "O", "N">>, section.version),
                       <<"$", "C", "O", "M", "M", "I", "T", "S">>, commits))
  ELSE LET heading ==
             <<"#", "#", "#", " ">> \o section.date \o <<" ", "/", " ">> \o section.version \o <<"\n", "\n">>
           entries ==
             join([k \in 1..Len(section.commits) |->
                     <<"-", " ">> \o section.commits[k] \o <<"\n">>], <<>>)
       IN trim(heading \o entries)

(* changelog.rs 196-203 *)
with_prepended_section(existing_text, section_markdown) ==
  IF trim(existing_text) = <<>> THEN section_markdown \o <<"\n">>
  ELSE section_markdown \o <<"\n", "\n">> \o trim(existing_text) \o <<"\n">>

(* the first index from k on that holds no whitespace *)
RECURSIVE skip_whitespace(_, _)
skip_whitespace(t, k) ==
  IF k <= Len(t) /\ is_whitespace(t[k]) THEN skip_whitespace(t, k + 1) ELSE k

(* the first index from k on that holds no digit *)
RECURSIVE skip_digits(_, _)
skip_digits(t, k) ==
  IF k <= Len(t) /\ IsDigit(t[k]) THEN skip_digits(t, k + 1) ELSE k

char_at(t, k, c) == k <= Len(t) /\ t[k] = c

digits_at(t, k, n) ==
  k + n - 1 <= Len(t) /\ \A h \in k..(k + n - 1) : IsDigit(t[h])

(* "$" of a multi-line regex behind optional whitespace: only whitespace is
   left on the line *)
RECURSIVE rest_of_line_is_blank(_, _)
rest_of_line_is_blank(t, k) ==
  IF k > Len(t) \/ t[k] = "\n" THEN TRUE
  ELSE IF is_whitespace(t[k]) THEN rest_of_line_is_blank(t, k + 1)
  ELSE FALSE

(* one match of
   (?m)^###\s+\d{4}-\d{2}-\d{2}\s*/\s*([0-9]+\.[0-9]+\.[0-9]+)\s*$
   starting at index k: the captured group, or None *)
heading_version_at(t, k) ==
  LET date == skip_whitespace(t, k + 3)
      slash == skip_whitespace(t, date + 10)
      major == skip_whitespace(t, slash + 1)
      dot1 == skip_digits(t, major)
      dot2 == skip_digits(t, dot1 + 1)
      end == skip_digits(t, dot2 + 1)
  IN IF /\ k = 1 \/ t[k - 1] = "\n"
        /\ k + 2 <= Len(t) /\ SubSeq(t, k, k + 2) = <<"#", "#", "#">>
        /\ date > k + 3
        /\ digits_at(t, date, 4) /\ char_at(t, date + 4, "-")
        /\ digits_at(t, date + 5, 2) /\ char_at(t, date + 7, "-")
        /\ digits_at(t, date + 8, 2)
        /\ char_at(t, slash, "/")
        /\ dot1 > major /\ char_at(t, dot1, ".")
        /\ dot2 > dot1 + 1 /\ char_at(t, dot2, ".")
        /\ end > dot2 + 1
        /\ rest_of_line_is_blank(t, end)
     THEN Some(SubSeq(t, major, end - 1))
     ELSE None

(* changelog.rs 153-160 *)
extract_versions(markdown) ==
  {heading_version_at(markdown, k)[1] :
     k \in {h \in 1..Len(markdown) : heading_version_at(markdown, h) # None}}

(* ---- inputs: targets, timestamps, commit lines ---- *)
Targets ==
  {None, Some(<<"m", "i", "n", "o", "r">>), Some(<<"M", "a", "j", "o", "r">>), Some(<<"1", ".", "2", ".", "3">>), Some(<<"v", "2", ".", "0", ".", "1", "0">>),
   Some(<<"1", ".", "2", ".", "3", "-", "r", "c", ".", "1">>), Some(<<"1", ".", "0", ".", "0", "+", "b", "7">>), Some(<<"1", ".", "2">>)}
Timestamps == {-1, 0, 86399, 951782400, 1771754400}
CommitLines == {<<>>, <<<<"f", "e", "a", "t", ":", " ", "a">>>>, <<<<"f", "i", "x", "!", ":", " ", "b">>, <<"#", "#", "#", " ", "2", "0", "2", "6", "-", "0", "2", "-", "2", "2", " ", "/", " ", "9", ".", "9", ".", "9">>>>}

(* ---- the round trip: resolve the version, render, extract ---- *)
InitRoundTrip ==
  /\ fname = "resolve_changelog_target"
  /\ input \in [current : {None} \cup {Some(v) : v \in Versions},
                target : Targets, detected_bump : BumpLevel,
                timestamp : Timestamps, commits : CommitLines]
  /\ returned = None
  /\ ReleaseIdle
  /\ ChangelogIdle
  /\ VersionIdle

(* resolve_changelog_target returns; on Ok the section is put together *)
ResolveTarget ==
  /\ fname = "resolve_changelog_target"
  /\ returned = None
  /\ LET next_version ==
           resolve_changelog_target(input.current, input.target,
                                    input.detected_bump)
     IN IF next_version = None
        THEN /\ returned' = Some("Err")
             /\ UNCHANGED <<fname, input>>
        ELSE /\ fname' = "render_section"
             /\ input' = [section |->
                            ChangelogSection(format_date(input.timestamp),
                                             version_to_string(next_version[1]),
                                             input.commits),
                          template |-> None]
             /\ returned' = None
  /\ UNCHANGED <<releaseVars, changelogVars, versionVars>>

RenderSection ==
  /\ fname = "render_section"
  /\ fname' = "extract_versions"
  /\ input' = [section |-> input.section,
               markdown |-> render_section(input.section, input.template)]
  /\ returned' = None
  /\ UNCHANGED <<releaseVars, changelogVars, versionVars>>

ExtractVersions ==
  /\ fname = "extract_versions"
  /\ returned = None
  /\ returned' = Some(extract_versions(input.markdown))
  /\ UNCHANGED <<fname, input, releaseVars, changelogVars, versionVars>>

NextRoundTrip == ResolveTarget \/ RenderSection \/ ExtractVersions

SpecRoundTrip == InitRoundTrip /\ [][NextRoundTrip]_vars

(* C18: for every section rendered with the default template, with a date
   of format_date, a version the resolver returns and any commit lines,
   the versions extracted from the rendering contain the section's
   version *)
C18_RenderedVersionIsExtracted ==
  (fname = "extract_versions" /\ returned # None) =>
    input.section.version \in returned[1]

(* ======================= git.rs over a commit graph ======================= *)

MaxCommits == 3

(* a commit of the repository: its id is its index in repo.commits, its
   parents have smaller indices *)
RepoCommit(oid, subject, body, time, parents) ==
  [oid |-> oid, subject |-> subject, body |-> body, time |-> time,
   parents |-> parents]

(* the commits reachable from oid, oid included *)
RECURSIVE reachable(_, _)
reachable(r, oid) ==
  {oid} \cup UNION {reachable(r, p) : p \in r.commits[oid].parents}

(* the elements of a set of tags or commits, greatest time first *)
RECURSIVE by_time_descending(_)
by_time_descending(set) ==
  IF set = {} THEN <<>>
  ELSE LET newest == CHOOSE x \in set : \A y \in set : y.time <= x.time
       IN <<newest>> \o by_time_descending(set \ {newest})

(* sort_by_key(Reverse(time)) is stable: a tag goes behind the tags of the
   same time that come before it in name order *)
RECURSIVE insert_tag(_, _)
insert_tag(sorted, tag) ==
  IF sorted = <<>> THEN <<tag>>
  ELSE IF tag.time > Head(sorted).time THEN <<tag>> \o sorted
  ELSE <<Head(sorted)>> \o insert_tag(Tail(sorted), tag)

RECURSIVE sort_tags(_)
sort_tags(found) ==
  IF found = <<>> THEN <<>>
  ELSE insert_tag(sort_tags(SubSeq(found, 1, Len(found) - 1)),
                  found[Len(found)])

(* git.rs 17-45: the matching tags, each with the id and time of its
   commit, newest first; r.tags lists them in name order *)
read_tags(r) ==
  sort_tags([k \in 1..Len(r.tags) |->
               [name |-> r.tags[k].name, oid |-> r.tags[k].oid,
                time |-> r.commits[r.tags[k].oid].time]])

(* git.rs 47-93: push end, hide start, Sort::TIME; commits with an empty
   subject are skipped *)
read_commits_between_oids(r, start_oid, end_oid) ==
  LET shown == reachable(r, end_oid)
      hidden == IF start_oid = None THEN {} ELSE reachable(r, start_oid[1])
      walk == by_time_descending({r.commits[c] : c \in shown \ hidden})
      has_subject(c) == c.subject # <<>>
  IN SelectSeq(walk, has_subject)

(* revparse_single(tag).peel_to_commit().id() *)
tag_oid(r, name) ==
  (CHOOSE t \in Range(r.tags) : t.name = name).oid

(* git.rs 95-119 *)
read_commits_between_tags(r, from_tag, to_tag) ==
  read_commits_between_oids(
    r, IF from_tag = None THEN None ELSE Some(tag_oid(r, from_tag[1])),
    tag_oid(r, to_tag))

(* git.rs 121-137 with from_tag = None: from the newest tag to HEAD *)
read_commits(r) ==
  read_commits_between_oids(
    r, IF read_tags(r) = <<>> THEN None ELSE Some(read_tags(r)[1].oid),
    Len(r.commits))

(* ======================= changelog.rs: the command ======================= *)

(* changelog.rs 205-208 on commits *)
is_releasable(commit) ==
  ~is_ignored(commit.subject) /\ ~starts_with(commit.subject, <<"c", "h", "o", "r", "e">>)

retain_releasable(commits) == SelectSeq(commits, is_releasable)

(* Iterator::max over the inferred bump levels, Patch when there are none *)
max_bump(commits) ==
  LET levels == {infer_bump(commits[k].subject, commits[k].body) :
                   k \in 1..Len(commits)}
  IN IF "major" \in levels THEN "major"
     ELSE IF "minor" \in levels THEN "minor"
     ELSE "patch"

subjects_of(commits) == [k \in 1..Len(commits) |-> commits[k].subject]

(* tags.first().and_then(normalize_tag_version) *)
latest_version_of(ts) ==
  IF ts = <<>> THEN None ELSE normalize_tag_version(ts[1].name)

(* ---- inputs: repositories with a linear history ---- *)
CommitTexts ==
  {[subject |-> <<"f", "e", "a", "t", ":", " ", "a">>, body |-> <<>>],
   [subject |-> <<"f", "i", "x", "!", ":", " ", "b">>, body |-> <<>>],
   [subject |-> <<"c", "h", "o", "r", "e", ":", " ", "c">>, body |-> <<>>]}

(* commit k is made one day after commit k - 1 *)
CommitTime(k) == 1771668000 + k * 86400

V010 == <<"v", "0", ".", "1", ".", "0">>
VOne == <<"v", "1">>

(* every tag name is absent or placed on one of the n commits; the tags
   are listed in name order *)
RECURSIVE place_tags(_, _)
place_tags(names, n) ==
  IF names = <<>> THEN {<<>>}
  ELSE LET rest == place_tags(Tail(names), n)
       IN rest \cup {<<[name |-> Head(names), oid |-> c]>> \o r :
                       c \in 1..n, r \in rest}

LinearRepo(texts, placed) ==
  [commits |-> [k \in 1..Len(texts) |->
                  RepoCommit(k, texts[k].subject, texts[k].body,
                             CommitTime(k), IF k = 1 THEN {} ELSE {k - 1})],
   tags |-> placed]

ChangelogTargets ==
  {None, Some(<<"m", "i", "n", "o", "r">>), Some(<<"1", ".", "2", ".", "3", "-", "r", "c", ".", "1">>), Some(<<"1", ".", "2">>)}
Templates == {None, Some(<<"#", "#", " ", "$", "V", "E", "R", "S", "I", "O", "N", " ", "(", "$", "D", "A", "T", "E", ")", "\n", "$", "C", "O", "M", "M", "I", "T", "S", "\n">>)}
InitialDocuments == {<<>>, <<"#", " ", "C", "h", "a", "n", "g", "e", "s", "\n", "\n", "#", "#", "#", " ", "2", "0", "2", "6", "-", "0", "2", "-", "2", "0", " ", "/", " ", "0", ".", "1", ".", "0", "\n", "\n", "-", " ", "f", "e", "a", "t", ":", " ", "x", "\n">>}
ChangelogArgsSet ==
  [target : ChangelogTargets, rebuild : BOOLEAN, dry_run : BOOLEAN]

NoLocals ==
  [existing |-> <<>>, existing_versions |-> {}, tags |-> <<>>,
   latest_version |-> None, commits |-> <<>>, next_version |-> None,
   previous_tag_name |-> None, k |-> 1, windows |-> <<>>,
   sections |-> <<>>, historical |-> <<>>, output |-> <<>>]

InitChangelog ==
  /\ changelog_args \in ChangelogArgsSet
  /\ changelog_template \in Templates
  /\ \E n \in 1..MaxCommits :
       \E texts \in [1..n -> CommitTexts],
          placed \in place_tags(<<V010, VOne>>, n) :
         repo = LinearRepo(texts, placed)
  /\ changelog_md \in InitialDocuments
  /\ cpc = "start"
  /\ local = NoLocals
  /\ stdout = <<>>
  /\ cerr = ""
  /\ written = 0
  /\ crun = 1
  /\ ReleaseIdle
  /\ PureIdle
  /\ VersionIdle

(* changelog.rs 283-291 *)
CheckArgs ==
  /\ cpc = "start"
  /\ IF changelog_args.rebuild /\ changelog_args.target # None
     THEN /\ cpc' = "error"
          /\ cerr' = "Cannot combine --rebuild with an explicit changelog target"
          /\ local' = local
     ELSE /\ cpc' = IF changelog_args.rebuild THEN "rebuild" ELSE "history"
          /\ cerr' = cerr
          /\ local' = [local EXCEPT
                         !.existing = changelog_md,
                         !.existing_versions = extract_versions(changelog_md)]
  /\ UNCHANGED <<changelog_args, changelog_template, repo, changelog_md,
                 stdout, written, crun>>
  /\ UNCHANGED <<releaseVars, pureVars, versionVars>>

(* changelog.rs 310-320 *)
ReadHistory ==
  /\ cpc = "history"
  /\ LET ts == read_tags(repo)
         commits == retain_releasable(read_commits(repo))
     IN /\ local' = [local EXCEPT !.tags = ts,
                                  !.latest_version = latest_version_of(ts),
                                  !.commits = commits]
        /\ cpc' = IF commits = <<>> THEN "done" ELSE "resolve"
  /\ UNCHANGED <<changelog_args, changelog_template, repo, changelog_md,
                 stdout, cerr, written, crun>>
  /\ UNCHANGED <<releaseVars, pureVars, versionVars>>

(* changelog.rs 322-339 *)
ResolveNext ==
  /\ cpc = "resolve"
  /\ LET commits == apply_default_sorting(local.commits)
         bump == max_bump(commits)
         next_version ==
           resolve_changelog_target(local.latest_version,
                                    changelog_args.target, bump)
     IN IF next_version = None
        THEN /\ cpc' = "error"
             /\ cerr' = "Invalid changelog target version"
             /\ local' = [local EXCEPT !.commits = commits]
        ELSE /\ cpc' = IF version_to_string(next_version[1])
                            \in local.existing_versions
                       THEN "done" ELSE "compose"
             /\ cerr' = cerr
             /\ local' = [local EXCEPT !.commits = commits,
                                       !.next_version = next_version]
  /\ UNCHANGED <<changelog_args, changelog_template, repo, changelog_md,
                 stdout, written, crun>>
  /\ UNCHANGED <<releaseVars, pureVars, versionVars>>

(* changelog.rs 341-348 *)
Compose ==
  /\ cpc = "compose"
  /\ LET section ==
           ChangelogSection(format_date(local.commits[1].time),
                            version_to_string(local.next_version[1]),
                            subjects_of(local.commits))
         section_markdown == render_section(section, changelog_template)
     IN local' = [local EXCEPT
                    !.sections = <<[section |-> section,
                                    commits |-> local.commits]>>,
                    !.output = with_prepended_section(local.existing,
                                                      section_markdown)]
  /\ cpc' = "write"
  /\ UNCHANGED <<changelog_args, changelog_template, repo, changelog_md,
                 stdout, cerr, written, crun>>
  /\ UNCHANGED <<releaseVars, pureVars, versionVars>>

(* changelog.rs 243: build_rebuild_output reads the tags *)
RebuildReadTags ==
  /\ cpc = "rebuild"
  /\ local' = [local EXCEPT !.tags = read_tags(repo), !.k = 1,
                            !.previous_tag_name = None]
  /\ cpc' = "tag_history"
  /\ UNCHANGED <<changelog_args, changelog_template, repo, changelog_md,
                 stdout, cerr, written, crun>>
  /\ UNCHANGED <<releaseVars, pureVars, versionVars>>

(* variant: the lower bound moves only past a window that has releasable
   commits *)
RenderTagSection_bound_kept ==
  /\ cpc = "tag_history"
  /\ local.k <= Len(local.tags)
  /\ LET tag == local.tags[Len(local.tags) + 1 - local.k]
         window == read_commits_between_tags(repo, local.previous_tag_name,
                                             tag.name)
         commits == apply_default_sorting(retain_releasable(window))
         version == normalize_tag_version(tag.name)
         section ==
           ChangelogSection(format_date(commits[1].time),
                            version_to_string(version[1]),
                            subjects_of(commits))
         rendered == commits # <<>> /\ version # None
     IN local' = [local EXCEPT
                    !.windows = Append(@, [tag |-> tag.name,
                                           commits |-> window]),
                    !.sections =
                      IF rendered
                      THEN Append(@, [section |-> section,
                                      commits |-> commits])
                      ELSE @,
                    !.historical =
                      IF rendered
                      THEN Append(@, render_section(section,
                                                    changelog_template))
                      ELSE @,
                    !.previous_tag_name =
                      IF commits # <<>> THEN Some(tag.name) ELSE @,
                    !.k = @ + 1]
  /\ UNCHANGED <<changelog_args, changelog_template, repo, changelog_md, cpc,
                 stdout, cerr, written, crun>>
  /\ UNCHANGED <<releaseVars, pureVars, versionVars>>

(* changelog.rs 214-237: one iteration of the loop over tags.iter().rev() *)
RenderTagSection ==
  /\ cpc = "tag_history"
  /\ local.k <= Len(local.tags)
  /\ LET tag == local.tags[Len(local.tags) + 1 - local.k]
         window == read_commits_between_tags(repo, local.previous_tag_name,
                                             tag.name)
         commits == apply_default_sorting(retain_releasable(window))
         version == normalize_tag_version(tag.name)
         section ==
           ChangelogSection(format_date(commits[1].time),
                            version_to_string(version[1]),
                            subjects_of(commits))
         rendered == commits # <<>> /\ version # None
     IN local' = [local EXCEPT
                    !.windows = Append(@, [tag |-> tag.name,
                                           commits |-> window]),
                    !.sections =
                      IF rendered
                      THEN Append(@, [section |-> section,
                                      commits |-> commits])
                      ELSE @,
                    !.historical =
                      IF rendered
                      THEN Append(@, render_section(section,
                                                    changelog_template))
                      ELSE @,
                    !.previous_tag_name = Some(tag.name),
                    !.k = @ + 1]
  /\ UNCHANGED <<changelog_args, changelog_template, repo, changelog_md, cpc,
                 stdout, cerr, written, crun>>
  /\ UNCHANGED <<releaseVars, pureVars, versionVars>>

(* changelog.rs 245-279: the pending section, then the historical ones,
   newest first *)
RenderPending ==
  /\ cpc = "tag_history"
  /\ local.k > Len(local.tags)
  /\ LET latest_version == latest_version_of(local.tags)
         pending_commits ==
           apply_default_sorting(retain_releasable(read_commits(repo)))
         section ==
           ChangelogSection(format_date(pending_commits[1].time),
                            version_to_string(
                              bump_version(latest_version,
                                           max_bump(pending_commits))),
                            subjects_of(pending_commits))
         pending ==
           IF pending_commits = <<>> THEN <<>>
           ELSE <<render_section(section, changelog_template)>>
         newest_first ==
           [k \in 1..Len(local.historical) |->
              local.historical[Len(local.historical) + 1 - k]]
         all == pending \o newest_first
     IN local' = [local EXCEPT
                    !.latest_version = latest_version,
                    !.commits = pending_commits,
                    !.sections =
                      IF pending_commits = <<>> THEN @
                      ELSE Append(@, [section |-> section,
                                      commits |-> pending_commits]),
                    !.output =
                      IF all = <<>> THEN <<>>
                      ELSE join(all, <<"\n", "\n">>) \o <<"\n">>]
  /\ cpc' = "write"
  /\ UNCHANGED <<changelog_args, changelog_template, repo, changelog_md,
                 stdout, cerr, written, crun>>
  /\ UNCHANGED <<releaseVars, pureVars, versionVars>>

(* changelog.rs 296-301 and 350-355: print under --dry-run, else
   fs::write *)
WriteOut ==
  /\ cpc = "write"
  /\ IF changelog_args.dry_run
     THEN /\ stdout' = Append(stdout, local.output)
          /\ UNCHANGED <<changelog_md, written>>
     ELSE /\ changelog_md' = local.output
          /\ written' = written + 1
          /\ stdout' = stdout
  /\ cpc' = "done"
  /\ UNCHANGED <<changelog_args, changelog_template, repo, local, cerr, crun>>
  /\ UNCHANGED <<releaseVars, pureVars, versionVars>>

(* the command is invoked again on the same repository, arguments and
   configuration *)
RerunChangelog ==
  /\ cpc \in {"done", "error"}
  /\ crun < MaxRuns
  /\ crun' = crun + 1
  /\ cpc' = "start"
  /\ local' = NoLocals
  /\ stdout' = <<>>
  /\ cerr' = ""
  /\ written' = 0
  /\ UNCHANGED <<changelog_args, changelog_template, repo, changelog_md>>
  /\ UNCHANGED <<releaseVars, pureVars, versionVars>>

NextChangelog ==
  \/ CheckArgs
  \/ ReadHistory
  \/ ResolveNext
  \/ Compose
  \/ RebuildReadTags
  \/ RenderTagSection
  \/ RenderPending
  \/ WriteOut
  \/ RerunChangelog

SpecChangelog == InitChangelog /\ [][NextChangelog]_vars

(* C17: a second run of the changelog command without --rebuild and
   without --dry-run, on the same commits, tags, target and template,
   leaves CHANGELOG.md as the first run left it *)
C17_SecondRunLeavesFileUnchanged ==
  [][(crun = 2 /\ ~changelog_args.rebuild /\ ~changelog_args.dry_run)
       => changelog_md' = changelog_md]_vars

(* the greatest timestamp among commits *)
MostRecentTime(commits) ==
  CHOOSE t \in {commits[k].time : k \in 1..Len(commits)} :
    \A k \in 1..Len(commits) : commits[k].time <= t

(* C19: the date of every section, the pending one and each tag-bounded
   one of a rebuild, is the UTC calendar date of the releasable commit of
   its window with the greatest timestamp *)
C19_SectionDateIsMostRecentCommit ==
  \A k \in 1..Len(local.sections) :
    local.sections[k].section.date =
      format_date(MostRecentTime(local.sections[k].commits))

(* ======================= tag windows on commit graphs ======================= *)

MaxGraphCommits == 4

V020 == <<"v", "0", ".", "2", ".", "0">>

(* a commit other than the first has one parent or, a merge, two *)
ParentChoices(k) ==
  IF k = 1 THEN {{}}
  ELSE {ps \in SUBSET (1..(k - 1)) : ps # {} /\ Cardinality(ps) <= 2}

RECURSIVE ParentSeqs(_)
ParentSeqs(n) ==
  IF n = 0 THEN {<<>>}
  ELSE {Append(ps, p) : ps \in ParentSeqs(n - 1), p \in ParentChoices(n)}

(* ---- inputs: repositories with branches and merges; commit k has the
   subject "feat: k" ---- *)
GraphRepo(parents, placed) ==
  [commits |-> [k \in 1..Len(parents) |->
                  RepoCommit(k, <<"f", "e", "a", "t", ":", " ">> \o to_dec(k),
                             <<>>, CommitTime(k), parents[k])],
   tags |-> placed]

(* changelog --rebuild with the default template on an empty CHANGELOG.md *)
InitHistory ==
  /\ changelog_args = [target |-> None, rebuild |-> TRUE, dry_run |-> FALSE]
  /\ changelog_template = None
  /\ \E n \in 1..MaxGraphCommits :
       \E parents \in ParentSeqs(n),
          placed \in place_tags(<<V010, V020, VOne>>, n) :
         repo = GraphRepo(parents, placed)
  /\ changelog_md = <<>>
  /\ cpc = "start"
  /\ local = NoLocals
  /\ stdout = <<>>
  /\ cerr = ""
  /\ written = 0
  /\ crun = 1
  /\ ReleaseIdle
  /\ PureIdle
  /\ VersionIdle

NextHistory ==
  \/ CheckArgs
  \/ RebuildReadTags
  \/ RenderTagSection
  \/ RenderPending
  \/ WriteOut

SpecHistory == InitHistory /\ [][NextHistory]_vars

TaggedHistory == UNION {reachable(repo, t.oid) : t \in Range(repo.tags)}

WindowsHolding(oid) ==
  {k \in 1..Len(local.windows) :
     \E j \in 1..Len(local.windows[k].commits) :
       local.windows[k].commits[j].oid = oid}

(* C20: once the rebuild has gone through the tags from oldest to newest,
   every commit reachable from some tag lies in exactly one window, and
   once it has written the document, every releasable commit of every
   window is an entry of it *)
C20_WindowsPartitionTaggedHistory ==
  /\ cpc \in {"write", "done"} =>
       \A oid \in TaggedHistory : Cardinality(WindowsHolding(oid)) = 1
  /\ cpc = "done" =>
       \A k \in 1..Len(local.windows) :
         \A j \in 1..Len(local.windows[k].commits) :
           is_releasable(local.windows[k].commits[j]) =>
             contains(changelog_md,
                      <<"-", " ">> \o local.windows[k].commits[j].subject)

(* ======================= filters.rs ======================= *)

(* Regex::new on an ignore pattern.  The patterns of the model are literal
   text, which matches a subject where it occurs in it, or hold an
   unclosed group, which does not compile: None is the Err *)
Regex_new(pattern) == IF "(" \in Range(pattern) THEN None ELSE Some(pattern)

(* Regex::is_match of a compiled literal pattern *)
is_match(pattern, text) == contains(text, pattern)

(* filters.rs 9-16: collect() stops at the first pattern that does not
   compile; None is the Err *)
CommitFilter_new(patterns) ==
  IF \E k \in 1..Len(patterns) : Regex_new(patterns[k]) = None THEN None
  ELSE Some([patterns |->
               [k \in 1..Len(patterns) |-> Regex_new(patterns[k])[1]]])

(* filters.rs 18-20 *)
CommitFilter_is_ignored(filter, subject) ==
  \/ starts_with(subject, <<"M", "e", "r", "g", "e", " ">>)
  \/ \E k \in 1..Len(filter.patterns) : is_match(filter.patterns[k], subject)

(* ======================= version.rs: version, semver, update ======================= *)

(* version.rs 40-43; None is the Err *)
normalize_semver(raw) == parse_version(trim_start_matches_v(trim(raw)))

(* version.rs 45-55: the first tag, newest first, whose name parses *)
latest_tag_version(r) ==
  LET ts == read_tags(r)
      parsing == {k \in 1..Len(ts) : normalize_semver(ts[k].name) # None}
  IN IF parsing = {} THEN VersionZero
     ELSE normalize_semver(
            ts[CHOOSE k \in parsing : \A m \in parsing : k <= m].name)[1]

(* version.rs 70-81; None is the Err of an invalid semver *)
parse_update_target(target, commits_bump) ==
  IF target = None THEN Some([kind |-> "Bump", bump |-> commits_bump])
  ELSE LET raw_target == target[1]
           lowered == to_ascii_lowercase(raw_target)
       IN IF lowered = <<"m", "a", "j", "o", "r">> THEN Some([kind |-> "Bump", bump |-> "major"])
          ELSE IF lowered = <<"m", "i", "n", "o", "r">>
          THEN Some([kind |-> "Bump", bump |-> "minor"])
          ELSE IF lowered = <<"p", "a", "t", "c", "h">>
          THEN Some([kind |-> "Bump", bump |-> "patch"])
          ELSE IF normalize_semver(raw_target) = None THEN None
          ELSE Some([kind |-> "Exact",
                     version |-> normalize_semver(raw_target)[1]])

(* version.rs 63-68 *)
resolve_target_version(current, target) ==
  IF target.kind = "Bump" THEN bump_semver(current, target.bump)
  ELSE target.version

(* version.rs 87-94 on the commits read and the compiled filter *)
detect_bump_of(commits, filter) ==
  LET kept(commit) == ~CommitFilter_is_ignored(filter, commit.subject)
  IN max_bump(SelectSeq(commits, kept))

(* ---- inputs: commands, configurations, repositories ---- *)
UpdateTargets == {None, Some(<<"M", "i", "n", "o", "r">>), Some(<<"n", "e", "x", "t">>)}
VersionFiles == {None, Some(<<"v", "1", ".", "2", ".", "3", "\n">>)}
WipPattern == <<"w", "i", "p">>
UnclosedGroup == <<"(">>
IgnorePatternLists == {<<>>, <<WipPattern>>, <<WipPattern, UnclosedGroup>>}

VersionTexts ==
  {[subject |-> <<"f", "e", "a", "t", ":", " ", "a">>, body |-> <<>>],
   [subject |-> <<"c", "h", "o", "r", "e", ":", " ", "c">>, body |-> <<"B", "R", "E", "A", "K", "I", "N", "G", " ", "C", "H", "A", "N", "G", "E", ":", " ", "x">>],
   [subject |-> <<"M", "e", "r", "g", "e", " ", "w", "i", "p">>, body |-> <<>>],
   [subject |-> <<"w", "i", "p", " ", "f", "i", "x", "!", ":", " ", "b">>, body |-> <<>>]}

VersionLocals == [commits |-> None, filter |-> None, bump |-> None]

InitVersion ==
  /\ \E name \in {"version", "semver", "update"} :
       \E target \in UpdateTargets, file \in VersionFiles :
         /\ name # "update" => target = None /\ file = None
         /\ command = [name |-> name, target |-> target]
         /\ version_file = file
  /\ config \in [ignore_patterns : IgnorePatternLists]
  /\ \E n \in 1..MaxCommits :
       \E texts \in [1..n -> VersionTexts],
          placed \in place_tags(<<V010, VOne>>, n) :
         repo = LinearRepo(texts, placed)
  /\ changelog_args = [target |-> <<>>, rebuild |-> FALSE, dry_run |-> FALSE]
  /\ changelog_template = <<>>
  /\ changelog_md = <<>>
  /\ cpc = "start"
  /\ local = VersionLocals
  /\ stdout = <<>>
  /\ cerr = ""
  /\ written = 0
  /\ crun = 1
  /\ ReleaseIdle
  /\ PureIdle

(* version.rs 546-555 with no --from-tag *)
execute_version ==
  /\ cpc = "start"
  /\ command.name = "version"
  /\ stdout' = <<version_to_string(latest_tag_version(repo))>>
  /\ cpc' = "done"
  /\ UNCHANGED <<changelog_args, changelog_template, repo, changelog_md,
                 local, cerr, written, crun>>
  /\ UNCHANGED <<releaseVars, pureVars, versionVars>>

(* version.rs 84: detect_bump reads the commits since the newest tag *)
DetectBumpReadCommits ==
  /\ cpc = "start"
  /\ command.name \in {"semver", "update"}
  /\ local' = [local EXCEPT !.commits = Some(read_commits(repo))]
  /\ cpc' = "filter"
  /\ UNCHANGED <<changelog_args, changelog_template, repo, changelog_md,
                 stdout, cerr, written, crun>>
  /\ UNCHANGED <<releaseVars, pureVars, versionVars>>

(* version.rs 85 *)
DetectBumpNewFilter ==
  /\ cpc = "filter"
  /\ LET filter == CommitFilter_new(config.ignore_patterns)
     IN IF filter = None
        THEN /\ cpc' = "error"
             /\ cerr' = "regex parse error"
             /\ local' = local
        ELSE /\ cpc' = "classify"
             /\ cerr' = cerr
             /\ local' = [local EXCEPT !.filter = filter]
  /\ UNCHANGED <<changelog_args, changelog_template, repo, changelog_md,
                 stdout, written, crun>>
  /\ UNCHANGED <<releaseVars, pureVars, versionVars>>

(* version.rs 87-94 *)
DetectBumpClassify ==
  /\ cpc = "classify"
  /\ local' = [local EXCEPT
                 !.bump = Some(detect_bump_of(local.commits[1],
                                              local.filter[1]))]
  /\ cpc' = "detected"
  /\ UNCHANGED <<changelog_args, changelog_template, repo, changelog_md,
                 stdout, cerr, written, crun>>
  /\ UNCHANGED <<releaseVars, pureVars, versionVars>>

(* version.rs 557-562 *)
execute_semver ==
  /\ cpc = "detected"
  /\ command.name = "semver"
  /\ stdout' = <<local.bump[1]>>
  /\ cpc' = "done"
  /\ UNCHANGED <<changelog_args, changelog_template, repo, changelog_md,
                 local, cerr, written, crun>>
  /\ UNCHANGED <<releaseVars, pureVars, versionVars>>

(* version.rs 564-585 without --commit, in a directory whose only
   candidate file is VERSION: parse_update_target, then
   apply_update_target 477-544 and update_plain_version_file 237-249 *)
execute_update ==
  /\ cpc = "detected"
  /\ command.name = "update"
  /\ LET target == parse_update_target(command.target, local.bump[1])
         current == normalize_semver(version_file[1])
         next == resolve_target_version(current[1], target[1])
     IN IF target = None
        THEN /\ cpc' = "error" /\ cerr' = "Invalid semver"
             /\ UNCHANGED <<version_file, written, stdout>>
        ELSE IF version_file = None
        THEN /\ cpc' = "error" /\ cerr' = "No supported package file found"
             /\ UNCHANGED <<version_file, written, stdout>>
        ELSE IF current = None
        THEN /\ cpc' = "error" /\ cerr' = "Invalid semver"
             /\ UNCHANGED <<version_file, written, stdout>>
        ELSE /\ version_file' = Some(version_to_string(next) \o <<"\n">>)
             /\ written' = written + 1
             /\ stdout' = <<<<"U", "p", "d", "a", "t", "e", "d", " ", "v", "e", "r", "s", "i", "o", "n", " ", "t", "o", " ">> \o version_to_string(next)
                              \o <<".">>>>
             /\ cpc' = "done"
             /\ cerr' = cerr
  /\ UNCHANGED <<changelog_args, changelog_template, repo, changelog_md,
                 local, crun>>
  /\ UNCHANGED <<releaseVars, pureVars, command, config>>

NextVersion ==
  \/ execute_version
  \/ DetectBumpReadCommits
  \/ DetectBumpNewFilter
  \/ DetectBumpClassify
  \/ execute_semver
  \/ execute_update

SpecVersion == InitVersion /\ [][NextVersion]_vars

(* the commits of a window that count for a release: not a merge, not a
   chore, matching no ignore pattern *)
Releasable(commits, filter) ==
  LET kept(commit) ==
        /\ ~CommitFilter_is_ignored(filter, commit.subject)
        /\ ~starts_with(commit.subject, <<"c", "h", "o", "r", "e">>)
  IN SelectSeq(commits, kept)

(* C21: the level detect_bump computes for the semver and update commands
   is the greatest infer_bump among the releasable commits of the window
   (no merge, no chore, no commit matching an ignore pattern), and patch
   when the window has no releasable commit *)
C21_BumpIsMaxOverReleasableCommits ==
  (local.bump # None) =>
    local.bump[1] = max_bump(Releasable(local.commits[1], local.filter[1]))

(* the version of the first tag of ts, newest first, whose name parses as
   a semantic version; None when no tag parses *)
NearestParsable(ts) ==
  LET parsing == {k \in 1..Len(ts) : normalize_tag_version(ts[k].name) # None}
  IN IF parsing = {} THEN None
     ELSE normalize_tag_version(
            ts[CHOOSE k \in parsing : \A m \in parsing : k <= m].name)

(* C22: the current version the changelog command computes the next
   version from is the version of the newest tag whose name parses as a
   semantic version, tags that do not parse being skipped over; it is
   absent only when no matching tag parses *)
C22_CurrentVersionIsNearestParsableTag ==
  cpc \in {"resolve", "compose", "write", "done"} =>
    local.latest_version = NearestParsable(read_tags(repo))

(* ======================= release.rs: further properties ======================= *)

(* C23: when no tag matches the tag pattern, the release command, whatever
   its flags, issues no remote call and prints nothing, and once it has
   read the tags it has failed with the error 'No matching git tags found
   for pattern ...' *)
C23_NoMatchingTagFailsBeforeAnyCall ==
  tags = <<>> =>
    /\ calls = <<>>
    /\ output = <<>>
    /\ pc # "start" =>
         /\ pc = "error"
         /\ err.msg = "No matching git tags found for pattern"

C23_Witness ==
  /\ tags = <<>>
  /\ pc = "error"
  /\ tagsRead
  /\ args.notes_only
  /\ remote # <<>>

(* ======================= changelog --rebuild over tag windows ======================= *)

(* changelog --rebuild with the default template on an empty CHANGELOG.md,
   over linear histories that hold chore commits *)
InitRebuild ==
  /\ changelog_args \in [target : {None}, rebuild : {TRUE}, dry_run : BOOLEAN]
  /\ changelog_template = None
  /\ \E n \in 1..MaxCommits :
       \E texts \in [1..n -> CommitTexts],
          placed \in place_tags(<<V010, V020, VOne>>, n) :
         repo = LinearRepo(texts, placed)
  /\ changelog_md = <<>>
  /\ cpc = "start"
  /\ local = NoLocals
  /\ stdout = <<>>
  /\ cerr = ""
  /\ written = 0
  /\ crun = 1
  /\ ReleaseIdle
  /\ PureIdle
  /\ VersionIdle

SpecRebuild == InitRebuild /\ [][NextHistory]_vars

(* the windows the rebuild has gone through, as the tags of the release
   command: newest first, each with the subjects of its window *)
WindowTags ==
  [j \in 1..Len(local.windows) |->
     [name |-> local.windows[Len(local.windows) + 1 - j].tag,
      window |-> subjects_of(local.windows[Len(local.windows) + 1 - j].commits)]]

NoReleasable(k) == retain_releasable(local.windows[k].commits) = <<>>

SectionHeadings(text) ==
  {k \in 1..Len(lines(text)) : starts_with(lines(text)[k], <<"#", "#", "#", " ">>)}

EmptyEntries(text) ==
  {k \in 1..Len(lines(text)) : trim(lines(text)[k]) = <<"-">>}

(* C24, as stated: a tag window with zero releasable commits contributes
   nothing to the output of the changelog rebuild or of the release
   command: no section is made of an empty list of commits, and the
   window's tag has no release candidate *)
C24_EmptyWindowContributesNothing ==
  \A k \in 1..Len(local.windows) :
    NoReleasable(k) =>
      /\ \A s \in Range(local.sections) : s.commits # <<>>
      /\ \A c \in Range(build_release_candidates(WindowTags)) :
           c.tag_name # release_tag(local.windows[k].tag)

(* C24, amended: in the changelog rebuild a tag window with zero
   releasable commits adds no section and no entry to the document, the
   sections rendered being exactly those of the windows that have a
   releasable commit and a tag that parses, while every window, whatever
   the window before it held, starts at the tag before it; in the release
   command the tag of such a window still gets a candidate, whose body is
   '- No notable changes.' *)
C24_EmptyWindowAddsNoSection ==
  /\ \A k \in 1..Len(local.windows) :
       /\ local.windows[k].commits =
            read_commits_between_tags(
              repo,
              IF k = 1 THEN None ELSE Some(local.windows[k - 1].tag),
              local.windows[k].tag)
       /\ NoReleasable(k) =>
            Candidate(WindowTags[Len(local.windows) + 1 - k]).body
              = <<NoNotable>>
  /\ cpc \in {"write", "done"} =>
       /\ Len(local.historical) =
            Cardinality({k \in 1..Len(local.windows) :
                           /\ ~NoReleasable(k)
                           /\ normalize_tag_version(local.windows[k].tag)
                                # None})
       /\ Cardinality(SectionHeadings(local.output)) =
            Len(local.historical) + (IF local.commits = <<>> THEN 0 ELSE 1)
       /\ EmptyEntries(local.output) = {}

C24_Witness ==
  /\ cpc = "done"
  /\ ~changelog_args.dry_run
  /\ Len(local.windows) = 2
  /\ local.windows[1].tag = V010
  /\ local.windows[1].commits # <<>>
  /\ NoReleasable(1)
  /\ local.windows[2].tag = V020
  /\ Len(local.windows[2].commits) = 1
  /\ Len(local.historical) = 1
  /\ contains(changelog_md, <<" ", "/", " ", "0", ".", "2", ".", "0", "\n">>)
  /\ ~contains(changelog_md, <<"0", ".", "1", ".", "0">>)

(* ======================= release.rs: a remote of more than one page ======================= *)

MaxOverPage == 1

(* a remote store of n releases, newest first: the release of tag vK was
   made K-th, so v1 is the last of the list; each is as the release
   command would have written it for a window holding 'feat: a' *)
RemoteOf(n) ==
  [k \in 1..n |->
     [id |-> n + 1 - k, tag_name |-> <<"v">> \o to_dec(n + 1 - k),
      name |-> Some(to_dec(n + 1 - k)),
      body |-> Some(<<<<"-", " ">> \o FeatA>>)]]

InitPaging ==
  /\ args \in [rebuild : BOOLEAN, dry_run : BOOLEAN, notes_only : BOOLEAN,
               target : {None}, prerelease : {FALSE}]
  /\ tags \in {ts \in TagLists :
                 \A k \in 1..Len(ts) :
                   ts[k].name \in {<<"v", "1">>, <<"v", "2">>}
                     /\ ts[k].window = <<FeatA>>}
  /\ \E n \in (PerPage - 1)..(PerPage + MaxOverPage) : remote = RemoteOf(n)
  /\ nextId = Len(remote) + 1
  /\ pc = "start"
  /\ tagsRead = FALSE
  /\ target_candidates = <<>>
  /\ existing = <<>>
  /\ i = 1
  /\ calls = <<>>
  /\ output = <<>>
  /\ err = NoErr
  /\ run = 1
  /\ PureIdle
  /\ ChangelogIdle
  /\ VersionIdle

SpecPaging == InitPaging /\ [][Next]_vars

(* C25: every release the remote holds at the time of a successful list
   call is in the result of the call, which becomes the existing set,
   however many releases the remote holds *)
C25_ListReturnsAllReleases ==
  [][(Len(calls') = Len(calls) + 1
        /\ calls'[Len(calls')].op = "list" /\ calls'[Len(calls')].ok)
       => /\ Range(remote) \subseteq Range(calls'[Len(calls')].result)
          /\ Range(remote) \subseteq Range(existing')]_vars

(* C26: when an ignore pattern does not compile, the semver and update
   commands fail on it before any commit is read from history or
   classified and before any file is written *)
C26_InvalidPatternFailsBeforeCommitsAreRead ==
  (command.name \in {"semver", "update"}
     /\ CommitFilter_new(config.ignore_patterns) = None) =>
    /\ local.commits = None
    /\ local.bump = None
    /\ written = 0
    /\ cpc # "start" => cpc = "error" /\ cerr = "regex parse error"

WritesFor(tag_name) ==
  {k \in 1..Len(calls) :
     calls[k].op \in {"create", "update"}
       /\ calls[k].payload[1].tag_name = tag_name}

(* C27: within one release run at most one create or update is issued for
   a desired tag name, also when two git tags normalise to the same
   release tag name *)
C27_AtMostOneWritePerTagName ==
  \A c \in Range(target_candidates) : Cardinality(WritesFor(c.tag_name)) <= 1

CallsOf(log, ops) == {k \in 1..Len(log) : log[k].op \in ops}

(* C28: a release run without --rebuild issues no delete call and at most
   one list call, exactly one once it is past the token; its only write
   is one create or one update, issued after the list, for the candidate
   of the newest tag; and every remote release with another tag name is
   left as it was, none being added *)
C28_NonRebuildTouchesNewestTagOnly ==
  [][~args.rebuild =>
       IF tags = <<>> THEN calls' = <<>> /\ remote' = remote
       ELSE LET newest == release_tag(tags[1].name)
                lists == CallsOf(calls', {"list"})
                writes == CallsOf(calls', {"create", "update"})
            IN /\ CallsOf(calls', {"delete"}) = {}
               /\ Cardinality(lists) <= 1
               /\ pc' \in {"upsert", "done"} /\ Reconciling =>
                    Cardinality(lists) = 1
               /\ Cardinality(writes) <= 1
               /\ \A k \in writes :
                    /\ calls'[k].payload[1].tag_name = newest
                    /\ k = 2 /\ calls'[1].op = "list" /\ calls'[1].ok
               /\ \A r \in Range(remote) \cup Range(remote') :
                    r.tag_name # newest =>
                      r \in Range(remote) \cap Range(remote')]_vars

C28_Witness ==
  /\ pc = "done"
  /\ ~args.rebuild
  /\ Reconciling
  /\ Len(tags) = 2
  /\ Len(calls) = 2
  /\ calls[1].op = "list" /\ Len(calls[1].result) = 2
  /\ calls[2].op = "update" /\ calls[2].ok
  /\ calls[2].payload[1].tag_name = release_tag(tags[1].name)
  /\ \E r \in Range(remote) : r.tag_name = V9

(* the subjects of a window that are neither merges nor chores *)
NotableSubjects(window) ==
  LET notable(subject) ==
        ~starts_with(subject, <<"M", "e", "r", "g", "e", " ">>) /\ ~starts_with(subject, <<"c", "h", "o", "r", "e">>)
  IN SelectSeq(window, notable)

(* the body of the release of a window, as a sequence of lines *)
ExpectedBody(window) ==
  IF NotableSubjects(window) = <<>> THEN <<<<"-", " ", "N", "o", " ", "n", "o", "t", "a", "b", "l", "e", " ", "c", "h", "a", "n", "g", "e", "s", ".">>>>
  ELSE [k \in 1..Len(NotableSubjects(window)) |->
          <<"-", " ">> \o NotableSubjects(window)[k]]

(* C29: the step that builds the candidates yields exactly one per
   matching tag, in oldest-to-newest tag order, each with a non-empty
   body: the list of its window's releasable subjects, or '- No notable
   changes.' when the window has none; the targets are all of them under
   --rebuild and the newest one otherwise *)
C29_OneCandidatePerTag ==
  [][(pc = "tags" /\ pc' = "built") =>
       LET candidates == build_release_candidates(tags)
           n == Len(tags)
       IN /\ Len(candidates) = n
          /\ \A k \in 1..n :
               /\ candidates[k].tag_name = release_tag(tags[n + 1 - k].name)
               /\ candidates[k].body = ExpectedBody(tags[n + 1 - k].window)
               /\ candidates[k].body # <<>>
               /\ \A line \in Range(candidates[k].body) : line # <<>>
          /\ target_candidates' =
               IF args.rebuild THEN candidates ELSE <<candidates[n]>>]_vars

C29_Witness ==
  /\ pc = "done"
  /\ args.rebuild
  /\ Len(tags) = 2
  /\ Len(target_candidates) = 2
  /\ target_candidates[1].body = <<<<"-", " ", "N", "o", " ", "n", "o", "t", "a", "b", "l", "e", " ", "c", "h", "a", "n", "g", "e", "s", ".">>>>
  /\ target_candidates[2].body = <<<<"-", " ", "f", "e", "a", "t", ":", " ", "a">>>>

(* ======================= the two breaking-change detectors ======================= *)

(* ---- inputs: the subjects of the classifier, and subjects that name a
   breaking change in their description ---- *)
DetectorSubjects ==
  Subjects \cup {<<"f", "e", "a", "t", ":", " ", "B", "R", "E", "A", "K", "I", "N", "G", " ", "C", "H", "A", "N", "G", "E">>, <<"f", "i", "x", "!", ":", "x">>, <<"d", "o", "c", "s", ":", " ", "B", "R", "E", "A", "K", "I", "N", "G", " ", "C", "H", "A", "N", "G", "E">>}

(* ---- priority and infer_bump applied to one commit ---- *)
InitDetectors ==
  /\ fname = "priority, infer_bump"
  /\ input \in [subject : DetectorSubjects, body : Bodies]
  /\ returned = None
  /\ ReleaseIdle
  /\ ChangelogIdle
  /\ VersionIdle

EvalDetectors ==
  /\ fname = "priority, infer_bump"
  /\ returned = None
  /\ returned' = Some([priority |-> priority(input.subject),
                       bump |-> infer_bump(input.subject, input.body)])
  /\ UNCHANGED <<fname, input, releaseVars, changelogVars, versionVars>>

SpecDetectors == InitDetectors /\ [][EvalDetectors]_vars

(* the subject itself holds one of the texts that put it in bucket 3 *)
SubjectNamesBreaking(subject) ==
  contains(subject, <<"!", ":">>) \/ contains(subject, <<"B", "R", "E", "A", "K", "I", "N", "G", " ", "C", "H", "A", "N", "G", "E">>)

(* C30, as stated: a commit that is Major because of a "!" before the
   first ": " of its subject is in bucket 3, and a commit that is Major
   only through a breaking-change footer of its body is in bucket 2 when
   its subject is a feat, 1 when it is a fix, 0 otherwise *)
C30_FooterOnlyMajorIsBelowBucketThree ==
  (fname = "priority, infer_bump" /\ returned # None) =>
    LET subject == input.subject
        bucket == returned[1].priority
    IN /\ (returned[1].bump = "major" /\ BangBeforeColonSpace(subject)) =>
            bucket = 3
       /\ (returned[1].bump = "major" /\ ~BangBeforeColonSpace(subject)) =>
            /\ BreakingFooter(input.body)
            /\ bucket = IF starts_with(subject, <<"f", "e", "a", "t">>) THEN 2
                        ELSE IF starts_with(subject, <<"f", "i", "x">>) THEN 1
                        ELSE 0

(* C30, amended: a commit that is Major because of a "!" before the first
   ": " of its subject is in bucket 3; a commit that is Major only through
   a breaking-change footer of its body is in the bucket its subject alone
   gives, which the footer does not raise: 3 when the subject itself holds
   "!:" or "BREAKING CHANGE", else 2 for a feat, 1 for a fix, 0 otherwise *)
C30_HeaderBreakingIsBucketThree ==
  (fname = "priority, infer_bump" /\ returned # None) =>
    LET subject == input.subject
        bucket == returned[1].priority
    IN /\ (returned[1].bump = "major" /\ BangBeforeColonSpace(subject)) =>
            bucket = 3
       /\ (returned[1].bump = "major" /\ ~BangBeforeColonSpace(subject)) =>
            /\ BreakingFooter(input.body)
            /\ bucket = IF SubjectNamesBreaking(subject) THEN 3
                        ELSE IF starts_with(subject, <<"f", "e", "a", "t">>) THEN 2
                        ELSE IF starts_with(subject, <<"f", "i", "x">>) THEN 1
                        ELSE 0

(* a subject in bucket 3 that is not Major: "!:" lies behind the first
   ": ", and the body has no footer *)
C30_Witness ==
  /\ fname = "priority, infer_bump"
  /\ returned # None
  /\ returned[1].priority = 3
  /\ returned[1].bump = "minor"
  /\ input.subject = <<"f", "e", "a", "t", ":", " ", "x", "!", ":", " ", "y">>
  /\ input.body = <<>>

====
